---- MODULE Spec2Model ----
(***************************************************************************)
(* A model of the stateful websocket session of lonelypss                  *)
(* (src/src/lonelypss/routes/websocket_endpoint.py), together with the     *)
(* refactored handlers under src/src/lonelypss/ws/handlers.                *)
(*                                                                         *)
(* The session is one asyncio loop (_handle_until_closed) that steps the   *)
(* state Accepting -> Open -> Closing -> Closed.  While Open, every tick   *)
(* of _handle_open takes the first ready branch of a fixed if/return       *)
(* chain.  The send slot (send_task) and the process slot (process_task)   *)
(* hold coroutines; a coroutine is modelled by the await it is suspended   *)
(* at (its pc), and one action runs it from one await to the next.         *)
(*                                                                         *)
(* Byte strings are modelled by what the code reads of them: the payload   *)
(* of an outbound notification by its length, the body of an inbound       *)
(* frame by a short sequence of symbols whose SHA-512 is modelled by an    *)
(* injective function (the sequence itself).                               *)
(***************************************************************************)
EXTENDS Integers, Sequences, FiniteSets, TLC

VARIABLES
    st,                     \* _State.type, plus WAITING_CONFIGURE of ws/handlers
    arch,                   \* which handlers drive the session: "monolithic" | "modular"
    broadcaster_config,     \* Config snapshot
    socket_level_config,    \* _StateOpen.socket_level_config (None until CONFIGURE)
    exact_subscriptions,    \* _MyReceiver.exact_subscriptions
    glob_subscriptions,     \* _MyReceiver.glob_subscriptions (the original strings)
    queue,                  \* _MyReceiver.queue, read through message_task
    read_task,              \* _StateOpen.read_task
    send_task,              \* _StateOpen.send_task
    process_task,           \* _StateOpen.process_task
    pending_sends,          \* _StateOpen.pending_sends
    unprocessed_receives,   \* _StateOpen.unprocessed_receives
    expecting_acks,         \* _StateOpen.expecting_acks
    incoming_notification,  \* _StateOpen.incoming_notification
    standard_compressor,    \* _StateOpen.standard_compressor
    active_compressor,      \* _StateOpen.active_compressor
    last_compressor,        \* _StateOpen.last_compressor
    broadcaster_counter,    \* _StateOpen.broadcaster_counter
    subscriber_counter,     \* _StateOpen.subscriber_counter
    training_data,          \* _StateOpen.training_data
    custom_compression_dict_counter,  \* _StateOpen.custom_compression_dict_counter
    backgrounded,           \* _StateOpen.backgrounded: the dropped compressors' tasks
    exception,              \* _StateClosing.exception is not None
    client_session,         \* _StateOpen.client_session: the calls of close()
    hub,                    \* the fanout hub's record of this session's calls
    finished,               \* the Large items whose finished event is set
    sent,                   \* history: frames handed to websocket.send_bytes
    ack_log,                \* history: every expectation put on expecting_acks
    delivered,              \* history: calls of handle_trusted_notify
    trace,                  \* history: what the last dispatch or processor step did
    env,                    \* what the peer and the hub may still do
    wire,                   \* a frame taken through the codec: frame, bytes, parsed
    internal_receiver,      \* ws/handlers State.internal_receiver: the receivers registered
    handler,                \* ws/handlers: where handle_waiting_configure is suspended
    message_task            \* _StateOpen.message_task: has the event loop run it

vars == <<st, arch, broadcaster_config, socket_level_config, exact_subscriptions,
          glob_subscriptions, queue, read_task, send_task, process_task,
          pending_sends, unprocessed_receives, expecting_acks,
          incoming_notification, standard_compressor, active_compressor,
          last_compressor, broadcaster_counter, subscriber_counter, exception, client_session,
          hub, finished, sent, ack_log, delivered, trace, env, training_data,
          custom_compression_dict_counter, backgrounded, wire, internal_receiver, handler, message_task>>

\* No frame is in the codec.
NoWire == [pc |-> "none"]

\* handle_waiting_configure suspended at pc; receiver_id is its local
\* variable, 0 until register_receiver returned.
Handler(pc) == [pc |-> pc, receiver_id |-> 0]

\* asyncio.create_task(state.my_receiver.queue.get()): ran once the event
\* loop has run the task, which then holds the head of the queue or waits
\* for it.
MessageTask(ran) == [ran |-> ran]

\* The fields compression training writes, and the codec's frame, which no
\* step of the session touches.
trainFrame == <<training_data, custom_compression_dict_counter, backgrounded,
                wire, internal_receiver, handler, message_task>>

(***************************************************************************)
(* Bounds of the model.                                                    *)
(***************************************************************************)
MaxDeliveries == 2      \* notifications the hub puts on the session's queue
MaxFrames == 3          \* frames the peer sends on the connection
MaxDispatches == 3      \* ticks of _handle_open that take the read branch
MaxHistory == 2         \* entries a history keeps in a run of recurring behaviour
MaxNow == 2             \* seconds the clock advances after the session started

(***************************************************************************)
(* Program constants.                                                      *)
(***************************************************************************)
MinPartSpace == 512     \* max(512, ...) floor of a RECEIVE_STREAM body part
IdentifierLen == 4      \* secrets.token_bytes(4)
Sha512Len == 64         \* len of a SHA-512 digest

None == [type |-> "NONE"]

Topics == {"t1"}
Globs == {"g*"}
TopicLen(topic) == 2

\* pattern.match(topic) for the compiled glob: "g*" does not match "t1".
GlobMatches(glob, topic) == FALSE

Max(a, b) == IF a >= b THEN a ELSE b
Min(a, b) == IF a <= b THEN a ELSE b

RECURSIVE ByteLen(_)
ByteLen(n) == IF n = 0 THEN 0 ELSE 1 + ByteLen(n \div 256)

\* _smallest_unsigned_size: (n.bit_length() - 1) // 8 + 1, which is 0 for n = 0
\* (Python floors -1 // 8 to -1) and the number of bytes of n otherwise.
_smallest_unsigned_size(n) == ByteLen(n)

\* n.to_bytes(size, "big") for an n that fits, and int.from_bytes(b, "big").
RECURSIVE ToBytes(_, _)
ToBytes(n, size) ==
    IF size = 0 THEN <<>> ELSE Append(ToBytes(n \div 256, size - 1), n % 256)

RECURSIVE FromBytes(_)
FromBytes(b) ==
    IF b = <<>> THEN 0
    ELSE 256 * FromBytes(SubSeq(b, 1, Len(b) - 1)) + b[Len(b)]

\* collections.deque(maxlen=m).append: a full deque discards its oldest item.
DequeAppend(d, x, maxlen) ==
    IF maxlen = 0 THEN d
    ELSE IF Len(d) >= maxlen THEN Append(Tail(d), x)
    ELSE Append(d, x)

\* zstandard compression of a payload of n bytes, by its length: a zstd frame
\* is never empty.
CompressedLen(n) == n \div 2 + 13

(***************************************************************************)
(* Records.                                                                *)
(***************************************************************************)

\* A frame the broadcaster sends (_OutgoingParsedWSMessageType and the headers
\* the claims read; body is the length of the frame's body).
OutFrame(type, identifier, part_id, topic, compressor, clen, dlen, body) ==
    [type |-> type, identifier |-> identifier, part_id |-> part_id,
     topic |-> topic, compressor |-> compressor, compressed_length |-> clen,
     decompressed_length |-> dlen, body |-> body, subscribers |-> <<>>]

SimpleFrame(type, identifier, part_id, topic) ==
    OutFrame(type, identifier, part_id, topic, 0, 0, 0, 0)

NoFrame == SimpleFrame("NONE", <<>>, 0, "")

\* _SmallMessage / _LargeMessage / _LargeSpooledMessage / _FormattedMessage.
\* n numbers the hub's deliveries; matched records whether the receiver was
\* relevant for the topic when the hub delivered the item, and confirmed
\* whether CONFIRM_SUBSCRIBE_EXACT of the topic had been sent by then.
Message(type, topic, length, n, matched) ==
    [type |-> type, topic |-> topic, length |-> length, n |-> n,
     matched |-> matched,
     confirmed |-> \E i \in 1..Len(sent) :
                      sent[i] = SimpleFrame("CONFIRM_SUBSCRIBE_EXACT", <<>>, 0, topic),
     websocket_data |-> NoFrame]

_FormattedMessage(frame) ==
    [type |-> "FORMATTED", topic |-> "", length |-> 0, n |-> 0,
     matched |-> FALSE, confirmed |-> FALSE, websocket_data |-> frame]

NoMessage == [_FormattedMessage(NoFrame) EXCEPT !.type = "NONE"]

\* _ContinueReceive / _ConfirmReceive
_ContinueReceive(identifier, part_id) ==
    [type |-> "CONTINUE_RECEIVE", identifier |-> identifier, part_id |-> part_id]

_ConfirmReceive(identifier) ==
    [type |-> "CONFIRM_RECEIVE", identifier |-> identifier, part_id |-> 0]

NoAck == [type |-> "NONE", identifier |-> <<>>, part_id |-> 0]

\* secrets.token_bytes(4): a fresh identifier for each notification sent,
\* modelled by the number of the delivery it carries.
MsgIdentifier(msg) == <<msg.n>>

\* A history variable gains an entry; in a run of recurring behaviour it
\* keeps its first MaxHistory entries only.
Record(history, x) ==
    IF env.recurring /\ Len(history) >= MaxHistory THEN history
    ELSE Append(history, x)

\* The coroutine in the send slot.  path is the function it runs, pc the await
\* it is suspended at.
SendTask(path, msg) ==
    [path |-> path, pc |-> "created", msg |-> msg, phase |-> "loop",
     part_id |-> 0, pos |-> 0, total |-> 0, compressor_id |-> 0,
     sent_so_far |-> 0, target_len |-> 0, target_pos |-> 0,
     ack |-> NoAck, frame |-> NoFrame, sender |-> "none", timer |-> "none",
     capture_io |-> [type |-> "NONE", collector |-> 0]]

NoTask == SendTask("none", NoMessage)

TaskDone(t) == t.pc \in {"done", "failed"}

\* _Compressor: Preparing (task running, done or failed) or Ready.
_CompressorPreparing(dictionary_id, task) ==
    [type |-> "PREPARING", dictionary_id |-> dictionary_id, task |-> task]

_CompressorReady(dictionary_id) ==
    [type |-> "READY", dictionary_id |-> dictionary_id, task |-> "done"]

NoCompressor == [type |-> "NONE", dictionary_id |-> 0, task |-> "none"]

\* task.cancel(): a task that has ended keeps its outcome.
Cancel(c) == [c EXCEPT !.task = IF @ = "running" THEN "cancelled" ELSE @]

\* _rotate_compressor without the cancel: the task of the dropped compressor
\* goes on.
RotateKeepsTask(new_compressor) ==
    /\ backgrounded' = IF last_compressor.type = "PREPARING"
                       THEN backgrounded \cup {last_compressor}
                       ELSE backgrounded
    /\ last_compressor' = active_compressor
    /\ active_compressor' = new_compressor

\* _rotate_compressor: a Preparing compressor in the last slot has its task
\* cancelled and handed to an _error_guard in backgrounded; then the active
\* compressor moves to the last slot and the new one becomes active.
_rotate_compressor(new_compressor) ==
    /\ backgrounded' = IF last_compressor.type = "PREPARING"
                       THEN backgrounded \cup {Cancel(last_compressor)}
                       ELSE backgrounded
    /\ last_compressor' = active_compressor
    /\ active_compressor' = new_compressor

\* Dictionary IDs below 65536 are presets, the others are trained on the
\* session; custom_compression_dict_counter starts at the first of these.
FirstCustomId == 65536

\* _CompressorTrainingInfo: the stage of training, the bytes collected so far
\* (collector.length) and whether data arrived since the last check.
_CompressorTrainingInfo(type, length, dirty, at) ==
    [type |-> type, length |-> length, dirty |-> dirty,
     started_at |-> IF type = "WAITING_TO_REFRESH" THEN 0 ELSE at,
     last_refreshed_at |-> IF type = "WAITING_TO_REFRESH" THEN at ELSE 0]

\* The length is one a trained dictionary is used for.
CollectsForTraining(length) ==
    /\ training_data # None
    /\ length >= broadcaster_config.compression_min_size
    /\ length < broadcaster_config.compression_trained_max_size

\* A retraining that starts over before the low watermark.
RetrainFromLowWatermark ==
    IF /\ training_data.type = "WAITING_TO_REFRESH"
       /\ env.now >= training_data.last_refreshed_at
                        + broadcaster_config.compression_retrain_interval_seconds
    THEN _CompressorTrainingInfo("BEFORE_LOW_WATERMARK", 0, FALSE, env.now)
    ELSE training_data

\* training_data after _handle_if_should_start_retraining(state): once
\* compression_retrain_interval_seconds have passed since last_refreshed_at a
\* new collector is opened before the high watermark.
_handle_if_should_start_retraining ==
    IF /\ training_data.type = "WAITING_TO_REFRESH"
       /\ env.now >= training_data.last_refreshed_at
                        + broadcaster_config.compression_retrain_interval_seconds
    THEN _CompressorTrainingInfo("BEFORE_HIGH_WATERMARK", 0, FALSE, env.now)
    ELSE training_data

\* training_data after _store_small_for_compression_training(state, data)
_store_small_for_compression_training(length) ==
    IF ~CollectsForTraining(length) THEN training_data
    ELSE LET info == _handle_if_should_start_retraining
         IN  IF info.type = "WAITING_TO_REFRESH" THEN info
             ELSE [info EXCEPT !.length = @ + length, !.dirty = TRUE]

\* A capturer that marks the collector dirty when it is made.
StoreForCapturerSetsDirty(length) ==
    IF ~CollectsForTraining(length) THEN training_data
    ELSE LET info == _handle_if_should_start_retraining
         IN  IF info.type = "WAITING_TO_REFRESH" THEN info
             ELSE [info EXCEPT !.length = @ + length, !.dirty = TRUE]

\* training_data after _make_store_for_training_capturer(state, length): the
\* length is counted when the capturer is made, dirty is left as it is.
_make_store_for_training_capturer(length) ==
    IF ~CollectsForTraining(length) THEN training_data
    ELSE LET info == _handle_if_should_start_retraining
         IN  IF info.type = "WAITING_TO_REFRESH" THEN info
             ELSE [info EXCEPT !.length = @ + length]

\* What _make_store_for_training_capturer(state, length) returns: VoidSyncIO,
\* or CloseGuardedIO over the tmpfile of the collector that is open then.
capture_io(length) ==
    IF ~CollectsForTraining(length) THEN [type |-> "VOID", collector |-> 0]
    ELSE LET info == _handle_if_should_start_retraining
         IN  IF info.type = "WAITING_TO_REFRESH"
             THEN [type |-> "VOID", collector |-> 0]
             ELSE [type |-> "GUARDED", collector |-> info.started_at]

(***************************************************************************)
(* Egress: the coroutines of the send slot.                                *)
(***************************************************************************)

\* What the send coroutines never write.
sendFrame == <<st, arch, broadcaster_config, socket_level_config,
               exact_subscriptions, glob_subscriptions, queue, read_task,
               process_task, pending_sends, unprocessed_receives,
               incoming_notification, standard_compressor, active_compressor,
               last_compressor, subscriber_counter, exception, client_session, hub, delivered,
               trace, env>>

\* len() of the bytes _make_receive_stream_message_prefix returns: flags and
\* type, then each minimal header as a 2-byte length and its value.  The
\* signer of the model returns no authorization, so that header is omitted.
PrefixLen(topic, part_id, dictionary_id, compressed_length, decompressed_length) ==
    4 + (2 + IdentifierLen) + (2 + _smallest_unsigned_size(part_id))
    + (IF part_id # 0 THEN 0
       ELSE (2 + TopicLen(topic))
            + (2 + _smallest_unsigned_size(dictionary_id))
            + (2 + _smallest_unsigned_size(compressed_length))
            + (2 + _smallest_unsigned_size(decompressed_length))
            + (2 + Sha512Len))

HasMaxSize == broadcaster_config.outgoing_max_ws_message_size >= 0

\* A queue that is full only once it holds one entry more than its maxsize.
QueueFullLate ==
    /\ broadcaster_config.websocket_send_max_unacknowledged > 0
    /\ Len(expecting_acks) > broadcaster_config.websocket_send_max_unacknowledged

\* asyncio.Queue(maxsize).full(): maxsize 0 is unbounded.
QueueFull ==
    /\ broadcaster_config.websocket_send_max_unacknowledged > 0
    /\ Len(expecting_acks) >= broadcaster_config.websocket_send_max_unacknowledged

\* A prefix made for the URL of the previous one.
MintPrefixAgain(t) ==
    /\ broadcaster_counter' = broadcaster_counter
    /\ send_task' = [t EXCEPT !.pc = "at_auth"]

\* _make_for_send_websocket_url_and_change_counter, called for the prefix of
\* the next part; the coroutine then awaits setup_authorization.
MintPrefix(t) ==
    /\ broadcaster_counter' = broadcaster_counter + 1
    /\ send_task' = [t EXCEPT !.pc = "at_auth"]

ReceiveStream(t, compressed_length, body) ==
    OutFrame("RECEIVE_STREAM", MsgIdentifier(t.msg), t.part_id, t.msg.topic,
             t.compressor_id, compressed_length, t.msg.length, body)

\* await state.expecting_acks.put(ack); await state.websocket.send_bytes(frame):
\* put returns at once unless the queue is full.
ExpectAckThenSend(t, ack, frame) ==
    IF QueueFull
    THEN /\ send_task' = [t EXCEPT !.pc = "at_put", !.ack = ack, !.frame = frame]
         /\ UNCHANGED <<expecting_acks, ack_log>>
    ELSE /\ send_task' = [t EXCEPT !.pc = "at_send", !.ack = ack, !.frame = frame]
         /\ expecting_acks' = Append(expecting_acks, ack)
         /\ ack_log' = Append(ack_log, ack)

\* An expectation that names the part after the one about to be sent.
AckForNextPart(t, more) ==
    IF more THEN _ContinueReceive(MsgIdentifier(t.msg), t.part_id + 1)
    ELSE _ConfirmReceive(MsgIdentifier(t.msg))

\* The ack to expect for a part: more parts follow iff more is true.
AckFor(t, more) ==
    IF more THEN _ContinueReceive(MsgIdentifier(t.msg), t.part_id)
    ELSE _ConfirmReceive(MsgIdentifier(t.msg))

IsReady(c) == c.type = "READY"

\* A put that waited for room in expecting_acks returns.
ResumePut ==
    /\ st = "OPEN"
    /\ send_task.pc = "at_put"
    /\ ~QueueFull
    /\ send_task' = [send_task EXCEPT !.pc = "at_send"]
    /\ expecting_acks' = Append(expecting_acks, send_task.ack)
    /\ ack_log' = Append(ack_log, send_task.ack)
    /\ UNCHANGED <<broadcaster_counter, sent, finished>>
    /\ UNCHANGED sendFrame
    /\ UNCHANGED trainFrame

\* state.websocket.send_bytes(next_send.websocket_data) as the send task.
SendFormatted ==
    /\ st = "OPEN"
    /\ send_task.path = "formatted"
    /\ send_task.pc = "created"
    /\ sent' = Record(sent, send_task.msg.websocket_data)
    /\ send_task' = [send_task EXCEPT !.pc = "done"]
    /\ UNCHANGED <<broadcaster_counter, expecting_acks, ack_log, finished>>
    /\ UNCHANGED sendFrame
    /\ UNCHANGED trainFrame

\* await state.websocket.send_bytes(...) raises in the send task: the
\* transport refuses the frame (the peer is gone).  No path catches it; the
\* task ends with the exception and the frame is not sent.
SendBytesRaises ==
    /\ st = "OPEN"
    /\ \/ send_task.pc = "at_send"
       \/ send_task.path = "formatted" /\ send_task.pc = "created"
    /\ send_task' = [send_task EXCEPT !.pc = "failed"]
    /\ UNCHANGED <<broadcaster_counter, expecting_acks, ack_log, sent, finished>>
    /\ UNCHANGED sendFrame
    /\ UNCHANGED trainFrame

-----------------------------------------------------------------------------
\* _send_small_message, up to the first await.
SmallBegin ==
    /\ st = "OPEN"
    /\ send_task.path = "small"
    /\ send_task.pc = "created"
    /\ IF socket_level_config = None
       THEN /\ send_task' = [send_task EXCEPT !.pc = "failed"]
            /\ UNCHANGED broadcaster_counter
       ELSE LET length == send_task.msg.length
                useActive ==
                    /\ length >= broadcaster_config.compression_min_size
                    /\ length < broadcaster_config.compression_trained_max_size
                    /\ IsReady(active_compressor)
                useStandard ==
                    /\ ~useActive
                    /\ length >= broadcaster_config.compression_trained_max_size
                    /\ IsReady(standard_compressor)
                compressor_id ==
                    IF useActive THEN active_compressor.dictionary_id
                    ELSE IF useStandard THEN 1 ELSE 0
                compressed_length ==
                    IF compressor_id # 0 THEN CompressedLen(length) ELSE length
                t == [send_task EXCEPT !.compressor_id = compressor_id,
                                       !.total = compressed_length]
            IN  IF compressed_length = 0
                THEN /\ send_task' = [t EXCEPT !.pc = "done"]
                     /\ UNCHANGED broadcaster_counter
                ELSE MintPrefix(t)
    /\ UNCHANGED <<expecting_acks, ack_log, sent, finished>>
    /\ UNCHANGED sendFrame
    /\ training_data' =
           IF socket_level_config = None THEN training_data
           ELSE _store_small_for_compression_training(send_task.msg.length)
    /\ UNCHANGED <<custom_compression_dict_counter, backgrounded, wire, internal_receiver, handler, message_task>>

\* _send_small_message from the prefix to the put and the send of one part.
SmallResumeAuth ==
    /\ st = "OPEN"
    /\ send_task.path = "small"
    /\ send_task.pc = "at_auth"
    /\ LET t == send_task
           remaining == t.total - t.pos
           headers == PrefixLen(t.msg.topic, t.part_id, t.compressor_id,
                                t.total, t.msg.length)
           remaining_space ==
               IF ~HasMaxSize THEN remaining
               ELSE Max(MinPartSpace,
                        broadcaster_config.outgoing_max_ws_message_size - headers)
           part == Min(remaining_space, remaining)
           t2 == [t EXCEPT !.pos = t.pos + part]
       IN  ExpectAckThenSend(t2, AckFor(t2, t2.pos < t2.total),
                             ReceiveStream(t2, t2.total, part))
    /\ UNCHANGED <<broadcaster_counter, sent, finished>>
    /\ UNCHANGED sendFrame
    /\ UNCHANGED trainFrame

\* _send_small_message after a part was sent: part_id += 1 and the loop test.
SmallResumeSend ==
    /\ st = "OPEN"
    /\ send_task.path = "small"
    /\ send_task.pc = "at_send"
    /\ sent' = Record(sent, send_task.frame)
    /\ LET t == [send_task EXCEPT !.part_id = send_task.part_id + 1]
       IN  IF t.pos < t.total
           THEN MintPrefix(t)
           ELSE /\ send_task' = [t EXCEPT !.pc = "done"]
                /\ UNCHANGED broadcaster_counter
    /\ UNCHANGED <<expecting_acks, ack_log, finished>>
    /\ UNCHANGED sendFrame
    /\ UNCHANGED trainFrame

-----------------------------------------------------------------------------
\* msg.finished.set() of a Large item that came from the hub's queue; the
\* finished event of a spooled copy belongs to the session's own spool file.
FinishedSet(t) ==
    IF t.msg.type = "LARGE" THEN finished \cup {t.msg.n} ELSE finished

\* max_ws_msg_size of the uncompressed large paths: 2**64 - 1 when unset, so
\* that the whole remainder fits one part.
PartSpace(t, length) ==
    IF ~HasMaxSize THEN Max(MinPartSpace, length)
    ELSE Max(MinPartSpace,
             broadcaster_config.outgoing_max_ws_message_size
             - PrefixLen(t.msg.topic, t.part_id, t.compressor_id, length, length))

\* Entering _send_large_compressed_message_optimistically with the standard
\* compressor: a Preparing compressor's task is awaited first.
EnterStandard(t) ==
    IF standard_compressor.type = "PREPARING"
    THEN [t EXCEPT !.pc = "at_std", !.compressor_id = 1]
    ELSE [t EXCEPT !.pc = "compressing", !.compressor_id = 1]

\* _send_large_message_from_spooled, up to the first await.
SpooledBegin ==
    /\ st = "OPEN"
    /\ send_task.path = "spooled"
    /\ send_task.pc = "created"
    /\ LET length == send_task.msg.length
           t == [send_task EXCEPT !.capture_io = capture_io(length)]
       IN  IF /\ standard_compressor # NoCompressor
              /\ length >= broadcaster_config.compression_trained_max_size
           THEN /\ send_task' = EnterStandard(t)
                /\ UNCHANGED broadcaster_counter
           ELSE IF /\ IsReady(active_compressor)
                   /\ length >= broadcaster_config.compression_min_size
           THEN /\ send_task' =
                       [t EXCEPT !.pc = "compressing",
                                 !.compressor_id = active_compressor.dictionary_id]
                /\ UNCHANGED broadcaster_counter
           ELSE MintPrefix([t EXCEPT !.total = length])
    /\ UNCHANGED <<expecting_acks, ack_log, sent, finished>>
    /\ UNCHANGED sendFrame
    /\ training_data' = _make_store_for_training_capturer(send_task.msg.length)
    /\ UNCHANGED <<custom_compression_dict_counter, backgrounded, wire, internal_receiver, handler, message_task>>

\* _send_large_message_from_spooled: read a chunk, expect its ack, send it.
SpooledResumeAuth ==
    /\ st = "OPEN"
    /\ send_task.path = "spooled"
    /\ send_task.pc = "at_auth"
    /\ LET t == send_task
           chunk == Min(PartSpace(t, t.msg.length), t.msg.length - t.pos)
           t2 == [t EXCEPT !.pos = t.pos + chunk]
       IN  IF chunk = 0
           THEN /\ send_task' = [t EXCEPT !.pc = "done"]
                /\ finished' = FinishedSet(t)
                /\ UNCHANGED <<expecting_acks, ack_log>>
           ELSE /\ ExpectAckThenSend(t2, AckFor(t2, t2.pos < t2.msg.length),
                                     ReceiveStream(t2, t2.msg.length, chunk))
                /\ UNCHANGED finished
    /\ UNCHANGED <<broadcaster_counter, sent>>
    /\ UNCHANGED sendFrame
    /\ UNCHANGED trainFrame

\* _send_large_message_from_spooled after a part was sent: the loop has no
\* test of its own, the next prefix is made before the next read.
SpooledResumeSend ==
    /\ st = "OPEN"
    /\ send_task.path = "spooled"
    /\ send_task.pc = "at_send"
    /\ sent' = Record(sent, send_task.frame)
    /\ MintPrefix([send_task EXCEPT !.part_id = send_task.part_id + 1])
    /\ UNCHANGED <<expecting_acks, ack_log, finished>>
    /\ UNCHANGED sendFrame
    /\ UNCHANGED trainFrame

-----------------------------------------------------------------------------
\* std_compressor = await std_compressor.task
AwaitStandard ==
    /\ st = "OPEN"
    /\ send_task.pc = "at_std"
    /\ standard_compressor.task \in {"done", "failed"}
    /\ send_task' =
           [send_task EXCEPT
               !.pc = IF standard_compressor.task = "done"
                      THEN "compressing" ELSE "failed"]
    /\ UNCHANGED <<broadcaster_counter, expecting_acks, ack_log, sent, finished>>
    /\ UNCHANGED sendFrame
    /\ UNCHANGED trainFrame

\* _send_large_compressed_message_optimistically: the pass over msg.stream
\* into compressed_file, msg.finished.set(), and the prefix of part 0.
CompressedRead ==
    /\ st = "OPEN"
    /\ send_task.path \in {"spooled", "direct"}
    /\ send_task.pc = "compressing"
    /\ finished' = FinishedSet(send_task)
    /\ MintPrefix([send_task EXCEPT !.path = "compressed",
                                    !.total = CompressedLen(send_task.msg.length),
                                    !.pos = 0, !.part_id = 0])
    /\ UNCHANGED <<expecting_acks, ack_log, sent>>
    /\ UNCHANGED sendFrame
    /\ UNCHANGED trainFrame

\* _send_large_compressed_message_optimistically: read a part of
\* compressed_file, expect its ack, send it.
CompressedResumeAuth ==
    /\ st = "OPEN"
    /\ send_task.path = "compressed"
    /\ send_task.pc = "at_auth"
    /\ LET t == send_task
           headers == PrefixLen(t.msg.topic, t.part_id, t.compressor_id,
                                t.total, t.msg.length)
           remaining_space ==
               IF HasMaxSize
               THEN Max(MinPartSpace,
                        broadcaster_config.outgoing_max_ws_message_size - headers)
               ELSE t.total
           part == Min(remaining_space, t.total - t.pos)
           t2 == [t EXCEPT !.pos = t.pos + part]
       IN  IF part = 0
           THEN /\ send_task' = [t EXCEPT !.pc = "done"]
                /\ UNCHANGED <<expecting_acks, ack_log>>
           ELSE ExpectAckThenSend(t2, AckFor(t2, t2.pos < t2.total),
                                  ReceiveStream(t2, t2.total, part))
    /\ UNCHANGED <<broadcaster_counter, sent, finished>>
    /\ UNCHANGED sendFrame
    /\ UNCHANGED trainFrame

\* _send_large_compressed_message_optimistically after a part was sent.
CompressedResumeSend ==
    /\ st = "OPEN"
    /\ send_task.path = "compressed"
    /\ send_task.pc = "at_send"
    /\ sent' = Record(sent, send_task.frame)
    /\ MintPrefix([send_task EXCEPT !.part_id = send_task.part_id + 1])
    /\ UNCHANGED <<expecting_acks, ack_log, finished>>
    /\ UNCHANGED sendFrame
    /\ UNCHANGED trainFrame

-----------------------------------------------------------------------------
\* _send_large_message_optimistically, up to the first await.  spool_timeout
\* is a sleep task when the timeout is configured, else a Future never set.
DirectBegin ==
    /\ st = "OPEN"
    /\ send_task.path = "direct"
    /\ send_task.pc = "created"
    /\ LET length == send_task.msg.length
           t == IF socket_level_config = None THEN send_task
                ELSE [send_task EXCEPT !.capture_io = capture_io(length)]
       IN  IF socket_level_config = None
           THEN /\ send_task' = [t EXCEPT !.pc = "failed"]
                /\ UNCHANGED broadcaster_counter
           ELSE IF /\ broadcaster_config.compression_allowed
                   /\ length >= broadcaster_config.compression_trained_max_size
                   /\ standard_compressor # NoCompressor
           THEN /\ send_task' = EnterStandard(t)
                /\ UNCHANGED broadcaster_counter
           ELSE IF /\ IsReady(active_compressor)
                   /\ length >= broadcaster_config.compression_min_size
                   /\ length < broadcaster_config.compression_trained_max_size
           THEN /\ send_task' =
                       [t EXCEPT !.pc = "compressing",
                                 !.compressor_id = active_compressor.dictionary_id]
                /\ UNCHANGED broadcaster_counter
           ELSE MintPrefix(
                    [t EXCEPT !.total = length,
                              !.timer =
                                  IF broadcaster_config.websocket_large_direct_send_timeout
                                  THEN "armed" ELSE "none"])
    /\ UNCHANGED <<expecting_acks, ack_log, sent, finished>>
    /\ UNCHANGED sendFrame
    /\ training_data' =
           IF socket_level_config = None THEN training_data
           ELSE _make_store_for_training_capturer(send_task.msg.length)
    /\ UNCHANGED <<custom_compression_dict_counter, backgrounded, wire, internal_receiver, handler, message_task>>

\* _send_large_message_optimistically, first loop: read a chunk from the
\* hub's stream; the last chunk is sent by the coroutine itself, any other by
\* a sender task (_expect_ack_and_send) raced against spool_timeout.
DirectResumeAuth ==
    /\ st = "OPEN"
    /\ send_task.path = "direct"
    /\ send_task.phase = "loop"
    /\ send_task.pc = "at_auth"
    /\ LET t == send_task
           chunk == Min(PartSpace(t, t.msg.length), t.msg.length - t.pos)
           t2 == [t EXCEPT !.pos = t.pos + chunk,
                           !.sent_so_far = t.sent_so_far + chunk]
           frame == ReceiveStream(t2, t2.msg.length, chunk)
       IN  IF chunk = 0
           THEN /\ send_task' = [t EXCEPT !.pc = "done", !.timer = "cancelled"]
                /\ finished' = FinishedSet(t)
                /\ UNCHANGED <<expecting_acks, ack_log>>
           ELSE IF t2.sent_so_far = t2.msg.length
           THEN /\ finished' = FinishedSet(t)
                /\ ExpectAckThenSend(
                       [t2 EXCEPT !.phase = "final", !.timer = "cancelled"],
                       AckFor(t2, FALSE), frame)
           ELSE /\ send_task' =
                       [t2 EXCEPT !.pc = "wait_sender", !.sender = "at_put",
                                  !.ack = AckFor(t2, TRUE), !.frame = frame,
                                  !.part_id = t2.part_id + 1]
                /\ UNCHANGED <<expecting_acks, ack_log, finished>>
    /\ UNCHANGED <<broadcaster_counter, sent>>
    /\ UNCHANGED sendFrame
    /\ UNCHANGED trainFrame

\* _expect_ack_and_send: await state.expecting_acks.put(...)
SenderPut ==
    /\ st = "OPEN"
    /\ send_task.sender = "at_put"
    /\ ~QueueFull
    /\ send_task' = [send_task EXCEPT !.sender = "at_send"]
    /\ expecting_acks' = Append(expecting_acks, send_task.ack)
    /\ ack_log' = Append(ack_log, send_task.ack)
    /\ UNCHANGED <<broadcaster_counter, sent, finished>>
    /\ UNCHANGED sendFrame
    /\ UNCHANGED trainFrame

\* _expect_ack_and_send: await state.websocket.send_bytes(ws_message)
SenderSend ==
    /\ st = "OPEN"
    /\ send_task.sender = "at_send"
    /\ send_task' = [send_task EXCEPT !.sender = "done"]
    /\ sent' = Record(sent, send_task.frame)
    /\ UNCHANGED <<broadcaster_counter, expecting_acks, ack_log, finished>>
    /\ UNCHANGED sendFrame
    /\ UNCHANGED trainFrame

\* The sleep of websocket_large_direct_send_timeout elapses.
SpoolTimeout ==
    /\ st = "OPEN"
    /\ send_task.timer = "armed"
    /\ send_task' = [send_task EXCEPT !.timer = "fired"]
    /\ UNCHANGED <<broadcaster_counter, expecting_acks, ack_log, sent, finished>>
    /\ UNCHANGED sendFrame
    /\ UNCHANGED trainFrame

\* A timeout that releases the item before the remainder is copied.
ResumeWaitReleasesFirst ==
    /\ st = "OPEN"
    /\ send_task.pc = "wait_sender"
    /\ send_task.sender = "done" \/ send_task.timer = "fired"
    /\ IF send_task.sender = "done"
       THEN /\ MintPrefix([send_task EXCEPT !.sender = "none"])
            /\ UNCHANGED finished
       ELSE /\ send_task' = [send_task EXCEPT !.pc = "respooling"]
            /\ finished' = FinishedSet(send_task)
            /\ UNCHANGED broadcaster_counter
    /\ UNCHANGED <<expecting_acks, ack_log, sent>>
    /\ UNCHANGED sendFrame
    /\ UNCHANGED trainFrame

\* asyncio.wait([sender, spool_timeout], FIRST_COMPLETED) returns: go on with
\* the next part if the sender is done, else leave the loop to respool.
DirectResumeWait ==
    /\ st = "OPEN"
    /\ send_task.pc = "wait_sender"
    /\ send_task.sender = "done" \/ send_task.timer = "fired"
    /\ IF send_task.sender = "done"
       THEN MintPrefix([send_task EXCEPT !.sender = "none"])
       ELSE /\ send_task' = [send_task EXCEPT !.pc = "respooling"]
            /\ UNCHANGED broadcaster_counter
    /\ UNCHANGED <<expecting_acks, ack_log, sent, finished>>
    /\ UNCHANGED sendFrame
    /\ UNCHANGED trainFrame

\* The remainder of msg.stream is copied to a temporary file, then
\* msg.finished.set(), target.seek(0), and the coroutine awaits the sender.
DirectRespool ==
    /\ st = "OPEN"
    /\ send_task.pc = "respooling"
    /\ send_task' =
           [send_task EXCEPT !.pc = "await_sender",
                             !.target_len = send_task.msg.length - send_task.pos,
                             !.target_pos = 0,
                             !.pos = send_task.msg.length]
    /\ finished' = FinishedSet(send_task)
    /\ UNCHANGED <<broadcaster_counter, expecting_acks, ack_log, sent>>
    /\ UNCHANGED sendFrame
    /\ UNCHANGED trainFrame

\* await sender, then the prefix of the first part read from the local copy.
DirectAwaitSender ==
    /\ st = "OPEN"
    /\ send_task.pc = "await_sender"
    /\ send_task.sender = "done"
    /\ MintPrefix([send_task EXCEPT !.sender = "none", !.phase = "respooled"])
    /\ UNCHANGED <<expecting_acks, ack_log, sent, finished>>
    /\ UNCHANGED sendFrame
    /\ UNCHANGED trainFrame

\* len(chunk) in the second loop: chunk is still the last value read by the
\* respooling loop, which ended on the empty read.
LenOfStaleChunk == 0

\* _send_large_message_optimistically, second loop: read a part from the
\* local copy; sent_so_far += len(chunk) decides which ack is expected.
DirectResumeAuthRespooled ==
    /\ st = "OPEN"
    /\ send_task.path = "direct"
    /\ send_task.phase = "respooled"
    /\ send_task.pc = "at_auth"
    /\ LET t == send_task
           part == Min(PartSpace(t, t.msg.length), t.target_len - t.target_pos)
           t2 == [t EXCEPT !.target_pos = t.target_pos + part,
                           !.sent_so_far = t.sent_so_far + LenOfStaleChunk]
       IN  IF part = 0
           THEN /\ send_task' = [t EXCEPT !.pc = "done"]
                /\ UNCHANGED <<expecting_acks, ack_log>>
           ELSE ExpectAckThenSend(t2,
                                  AckFor(t2, t2.sent_so_far # t2.msg.length),
                                  ReceiveStream(t2, t2.msg.length, part))
    /\ UNCHANGED <<broadcaster_counter, sent, finished>>
    /\ UNCHANGED sendFrame
    /\ UNCHANGED trainFrame

\* _send_large_message_optimistically after its own send_bytes returned: the
\* final part of the first loop ends the coroutine, a part of the second loop
\* is followed by the next prefix.
DirectResumeSend ==
    /\ st = "OPEN"
    /\ send_task.path = "direct"
    /\ send_task.pc = "at_send"
    /\ sent' = Record(sent, send_task.frame)
    /\ IF send_task.phase = "final"
       THEN /\ send_task' = [send_task EXCEPT !.pc = "done"]
            /\ UNCHANGED broadcaster_counter
       ELSE MintPrefix([send_task EXCEPT !.part_id = send_task.part_id + 1])
    /\ UNCHANGED <<expecting_acks, ack_log, finished>>
    /\ UNCHANGED sendFrame
    /\ UNCHANGED trainFrame

(***************************************************************************)
(* Inbound frames and the process slot.                                    *)
(***************************************************************************)

\* What websocket.receive() returns: a disconnect, a text message, or bytes
\* that _parse_websocket_message turns into a _ParsedWSMessage (MALFORMED:
\* bytes it raises on).  target is x-topic or x-glob; body is the frame's body
\* and sha512 the value of x-compressed-sha512, both as symbol sequences.
InFrame(type) ==
    [type |-> type, target |-> "", identifier |-> <<>>, part_id |-> 0,
     compressor |-> 0, compressed_length |-> 0, decompressed_length |-> 0,
     sha512 |-> <<>>, body |-> <<>>,
     enable_zstd |-> FALSE, enable_training |-> FALSE, initial_dict |-> 0]

NoInFrame == InFrame("NONE")

Configure(enable_zstd, enable_training, initial_dict) ==
    [InFrame("CONFIGURE") EXCEPT !.enable_zstd = enable_zstd,
                                 !.enable_training = enable_training,
                                 !.initial_dict = initial_dict]

Control(type, target) == [InFrame(type) EXCEPT !.target = target]

Ack(type, identifier, part_id) ==
    [InFrame(type) EXCEPT !.identifier = identifier, !.part_id = part_id]

Notify(type, identifier, part_id, compressor, clen, dlen, sha512, body) ==
    [InFrame(type) EXCEPT !.target = "t1", !.identifier = identifier,
                          !.part_id = part_id, !.compressor = compressor,
                          !.compressed_length = clen,
                          !.decompressed_length = dlen,
                          !.sha512 = sha512, !.body = body]

\* hashlib.sha512(data).digest(), modelled as an injective function: the
\* digest of a body is the body behind a tag, so no body is its own digest.
Sha512(data) == <<"sha512">> \o data

\* The length a body decompresses to (zstandard, by length only).
DecompressedLen(body) == 2 * Len(body)

\* The coroutine in the process slot; auth_result is history: what the
\* verifier answered to a SUBSCRIBE_* or UNSUBSCRIBE_* frame; notify_result is
\* what handle_trusted_notify returned to it.
ProcessTask(message) ==
    [pc |-> "created", message |-> message, verified |-> FALSE,
     hub_applied |-> FALSE, slot |-> "none", auth_result |-> "none",
     notify_result |-> [type |-> "NONE", succeeded |-> 0]]

NoProcess == ProcessTask(NoInFrame)

ReadPending == [done |-> FALSE, message |-> NoInFrame]
ReadDone(message) == [done |-> TRUE, message |-> message]

\* _ReceivingNotify; prev_part_id is history: the part_id of the last part
\* the session accepted for this stream (the code keeps last_part_id).
_ReceivingNotify(message) ==
    [type |-> "RECEIVING", identifier |-> message.identifier,
     last_part_id |-> -1, topic |-> message.target,
     compressor_id |-> message.compressor,
     compressed_length |-> message.compressed_length,
     decompressed_length |-> message.decompressed_length,
     compressed_sha512 |-> message.sha512,
     body |-> <<>>, prev_part_id |-> -1]

NoNotification == [_ReceivingNotify(NoInFrame) EXCEPT !.type = "NONE"]

\* The hub's view of this session: the calls of increment_* and decrement_*
\* that took effect, per topic or glob.
Keys == Topics \cup Globs
\* A hub that counts every increment twice.
HubCallTwice(h, key, op) ==
    [h EXCEPT ![key] = IF op = "inc" THEN [@ EXCEPT !.inc = @ + 2]
                       ELSE [@ EXCEPT !.dec = @ + 1]]

HubCall(h, key, op) ==
    [h EXCEPT ![key] = IF op = "inc" THEN [@ EXCEPT !.inc = @ + 1]
                       ELSE [@ EXCEPT !.dec = @ + 1]]

SeqToSet(s) == {s[i] : i \in 1..Len(s)}

\* _MyReceiver.is_relevant
is_relevant(topic) ==
    \/ topic \in exact_subscriptions
    \/ \E i \in 1..Len(glob_subscriptions) : GlobMatches(glob_subscriptions[i], topic)

\* if state.send_task is None: state.send_task = create_task(send_bytes(frame))
\* else: state.pending_sends.append(_FormattedMessage(frame))
SendOrQueue(frame) ==
    IF send_task = NoTask
    THEN /\ send_task' = SendTask("formatted", _FormattedMessage(frame))
         /\ UNCHANGED pending_sends
    ELSE /\ pending_sends' =
               DequeAppend(pending_sends, _FormattedMessage(frame),
                           broadcaster_config.websocket_max_pending_sends)
         /\ UNCHANGED send_task

\* The decrement_exact and decrement_glob calls of one run of _cleanup_open, in
\* order.
RECURSIVE SetToSeq(_)
SetToSeq(S) ==
    IF S = {} THEN <<>>
    ELSE LET x == CHOOSE y \in S : TRUE IN <<x>> \o SetToSeq(S \ {x})

TeardownCalls == SetToSeq(exact_subscriptions) \o glob_subscriptions

RECURSIVE HubDecrementEach(_, _)
HubDecrementEach(h, calls) ==
    IF calls = <<>> THEN h
    ELSE HubDecrementEach(HubCall(h, Head(calls), "dec"), Tail(calls))

\* How one run of _cleanup_open ends: every decrement applied, or, where the
\* collaborators may raise, client_session.close or a decrement raises after
\* the decrements before it were applied; the decrement that raises has taken
\* effect at the hub or has not.  receiver_id is never set, so
\* unregister_receiver is not called.
CleanupRuns ==
    {[applied |-> Len(TeardownCalls), raised |-> FALSE]}
    \cup (IF env.raising
          THEN {[applied |-> k, raised |-> TRUE] : k \in 0..Len(TeardownCalls)}
          ELSE {})

\* _cleanup_open: cancel every task, close what is open, decrement the hub
\* counter of each subscription, and become _StateClosing.
_cleanup_open(exc) ==
    \E run \in CleanupRuns :
        /\ st' = "CLOSING"
        /\ exception' = (exc \/ run.raised)
        /\ client_session' = [closes |-> client_session.closes + 1]
        /\ hub' = HubDecrementEach(hub, SubSeq(TeardownCalls, 1, run.applied))

\* return await _cleanup_open(state, exc) inside the try of _handle_open: when
\* the run raises, the except clause runs _cleanup_open again from its top.
CleanupInTry(exc) ==
    \E first \in CleanupRuns :
        IF ~first.raised
        THEN /\ st' = "CLOSING"
             /\ exception' = exc
             /\ client_session' = [closes |-> client_session.closes + 1]
             /\ hub' = HubDecrementEach(hub, TeardownCalls)
        ELSE \E second \in CleanupRuns :
                /\ st' = "CLOSING"
                /\ exception' = TRUE
                /\ client_session' = [closes |-> client_session.closes + 2]
                /\ hub' = HubDecrementEach(
                              HubDecrementEach(hub, SubSeq(TeardownCalls, 1,
                                                           first.applied)),
                              SubSeq(TeardownCalls, 1, second.applied))

\* A tick of _handle_open that returns the state it was given.
StaysOpen == UNCHANGED <<st, exception, client_session, hub>>

\* What the last dispatch or processor step did; tick flips at each.
Trace(op, message, ok) ==
    [tick |-> 1 - trace.tick, op |-> op, message |-> message, ok |-> ok]

(***************************************************************************)
(* _handle_open: one action per branch of the if/return chain.  A branch   *)
(* is taken only when no earlier branch is ready.                          *)
(***************************************************************************)

\* What no branch of _handle_open writes; read_task is among them.
loopFrame == <<arch, broadcaster_config, socket_level_config,
               exact_subscriptions, glob_subscriptions, read_task,
               incoming_notification, broadcaster_counter, subscriber_counter,
               sent, ack_log, delivered>>

IsPreparedTask(c) == c.type = "PREPARING" /\ c.task \in {"done", "failed"}

\* The first branch taken only once a second item waits.
PendingSendReadyLate == send_task = NoTask /\ Len(pending_sends) > 1

PendingSendReady == send_task = NoTask /\ pending_sends # <<>>
UnprocessedReady == process_task = NoProcess /\ unprocessed_receives # <<>>
SendTaskDone == send_task # NoTask /\ TaskDone(send_task)
ProcessTaskDone == process_task # NoProcess /\ TaskDone(process_task)
ActiveDone == IsPreparedTask(active_compressor)
StandardDone == IsPreparedTask(standard_compressor)
MessageReady == message_task.ran /\ queue # <<>>
LastDone == IsPreparedTask(last_compressor)
ReadReady == read_task.done

\* if state.send_task is None and state.pending_sends
OpenLaunchSend ==
    /\ st = "OPEN"
    /\ PendingSendReady
    /\ LET next_send == Head(pending_sends)
       IN  send_task' =
               SendTask(CASE next_send.type = "SMALL" -> "small"
                          [] next_send.type = "LARGE_SPOOLED" -> "spooled"
                          [] OTHER -> "formatted",
                        next_send)
    /\ pending_sends' = Tail(pending_sends)
    /\ StaysOpen
    /\ UNCHANGED <<queue, process_task, unprocessed_receives, expecting_acks,
                   standard_compressor, active_compressor, last_compressor,
                   finished, trace, env>>
    /\ UNCHANGED loopFrame
    /\ UNCHANGED trainFrame

\* if state.process_task is None and state.unprocessed_receives
OpenDispatchUnprocessed ==
    /\ st = "OPEN"
    /\ ~PendingSendReady
    /\ UnprocessedReady
    /\ process_task' = ProcessTask(Head(unprocessed_receives))
    /\ unprocessed_receives' = Tail(unprocessed_receives)
    /\ trace' = Trace("dispatch", Head(unprocessed_receives), TRUE)
    /\ StaysOpen
    /\ UNCHANGED <<queue, send_task, pending_sends, expecting_acks,
                   standard_compressor, active_compressor, last_compressor,
                   finished, env>>
    /\ UNCHANGED loopFrame
    /\ UNCHANGED trainFrame

\* if state.send_task is not None and state.send_task.done()
OpenSendDone ==
    /\ st = "OPEN"
    /\ ~PendingSendReady /\ ~UnprocessedReady
    /\ SendTaskDone
    /\ IF send_task.pc = "failed"
       THEN _cleanup_open(TRUE) /\ UNCHANGED send_task
       ELSE StaysOpen /\ send_task' = NoTask
    /\ UNCHANGED <<queue, process_task, pending_sends, unprocessed_receives,
                   expecting_acks, standard_compressor, active_compressor,
                   last_compressor, finished, trace, env>>
    /\ UNCHANGED loopFrame
    /\ UNCHANGED trainFrame

\* if state.process_task is not None and state.process_task.done()
OpenProcessDone ==
    /\ st = "OPEN"
    /\ ~PendingSendReady /\ ~UnprocessedReady /\ ~SendTaskDone
    /\ ProcessTaskDone
    /\ IF process_task.pc = "failed"
       THEN _cleanup_open(TRUE) /\ UNCHANGED process_task
       ELSE StaysOpen /\ process_task' = NoProcess
    /\ UNCHANGED <<queue, send_task, pending_sends, unprocessed_receives,
                   expecting_acks, standard_compressor, active_compressor,
                   last_compressor, finished, trace, env>>
    /\ UNCHANGED loopFrame
    /\ UNCHANGED trainFrame

\* len(compressor.data.as_bytes()): the size of a trained dictionary.
DictLen == 64

\* x-compression-level of the dictionaries the configuration provides.
DictLevel == 3

\* len(headers) of an ENABLE_ZSTD_* frame: flags and type, then x-identifier,
\* x-compression-level, x-min-size (4 bytes) and x-max-size.
EnableLen(dictionary_id) ==
    4 + (2 + _smallest_unsigned_size(dictionary_id))
    + (2 + _smallest_unsigned_size(DictLevel)) + (2 + 4)
    + (2 + _smallest_unsigned_size(
               broadcaster_config.compression_trained_max_size))

\* _acknowledge_compressor_ready raises: a custom dictionary that does not
\* fit one frame of outgoing_max_ws_message_size.
AcknowledgeRaises(compressor) ==
    /\ compressor.dictionary_id >= FirstCustomId
    /\ HasMaxSize
    /\ EnableLen(compressor.dictionary_id) + DictLen
       > broadcaster_config.outgoing_max_ws_message_size

\* _acknowledge_compressor_ready: the standard compressor and "no
\* compression" are never announced; a preset dictionary is announced by
\* ENABLE_ZSTD_PRESET and a trained one by ENABLE_ZSTD_CUSTOM, which carries
\* the dictionary; the frame is sent at once if the send slot is free.
_acknowledge_compressor_ready(compressor) ==
    IF compressor.dictionary_id <= 1
    THEN UNCHANGED <<send_task, pending_sends>>
    ELSE SendOrQueue(
             IF compressor.dictionary_id < FirstCustomId
             THEN SimpleFrame("ENABLE_ZSTD_PRESET",
                              <<compressor.dictionary_id>>, 0, "")
             ELSE [SimpleFrame("ENABLE_ZSTD_CUSTOM",
                               <<compressor.dictionary_id>>, 0, "")
                   EXCEPT !.body = DictLen])

earlierThanCompressors ==
    ~PendingSendReady /\ ~UnprocessedReady /\ ~SendTaskDone /\ ~ProcessTaskDone

\* active_compressor is Preparing and its task is done
OpenActiveReady ==
    /\ st = "OPEN"
    /\ earlierThanCompressors
    /\ ActiveDone
    /\ IF active_compressor.task = "failed"
       THEN /\ _cleanup_open(TRUE)
            /\ UNCHANGED <<active_compressor, send_task, pending_sends>>
       ELSE IF AcknowledgeRaises(active_compressor)
       THEN /\ _cleanup_open(TRUE)
            /\ active_compressor' = _CompressorReady(active_compressor.dictionary_id)
            /\ UNCHANGED <<send_task, pending_sends>>
       ELSE /\ StaysOpen
            /\ active_compressor' = _CompressorReady(active_compressor.dictionary_id)
            /\ _acknowledge_compressor_ready(active_compressor)
    /\ UNCHANGED <<queue, process_task, unprocessed_receives, expecting_acks,
                   standard_compressor, last_compressor, finished, trace, env>>
    /\ UNCHANGED loopFrame
    /\ UNCHANGED trainFrame

\* standard_compressor is Preparing and its task is done
OpenStandardReady ==
    /\ st = "OPEN"
    /\ earlierThanCompressors /\ ~ActiveDone
    /\ StandardDone
    /\ IF standard_compressor.task = "failed"
       THEN /\ _cleanup_open(TRUE)
            /\ UNCHANGED <<standard_compressor, send_task, pending_sends>>
       ELSE /\ StaysOpen
            /\ standard_compressor' =
                   _CompressorReady(standard_compressor.dictionary_id)
            /\ _acknowledge_compressor_ready(standard_compressor)
    /\ UNCHANGED <<queue, process_task, unprocessed_receives, expecting_acks,
                   active_compressor, last_compressor, finished, trace, env>>
    /\ UNCHANGED loopFrame
    /\ UNCHANGED trainFrame

\* _spool_large_message_immediately: the copy of a Large item that waits in
\* pending_sends (_LargeSpooledMessage, with a finished event of its own).
_spool_large_message_immediately(msg) == [msg EXCEPT !.type = "LARGE_SPOOLED"]

\* if state.message_task.done(): start the send if the send slot is free,
\* else queue a Small item, or spool a Large one, release it and queue the copy.
MessageBranch(created) ==
    /\ st = "OPEN"
    /\ earlierThanCompressors /\ ~ActiveDone /\ ~StandardDone
    /\ MessageReady
    /\ queue' = Tail(queue)
    /\ message_task' = created
    /\ LET msg == Head(queue)
       IN  IF send_task = NoTask
           THEN /\ send_task' =
                       SendTask(IF msg.type = "SMALL" THEN "small" ELSE "direct", msg)
                /\ UNCHANGED <<pending_sends, finished>>
           ELSE IF msg.type = "SMALL"
           THEN /\ pending_sends' =
                       DequeAppend(pending_sends, msg,
                                   broadcaster_config.websocket_max_pending_sends)
                /\ UNCHANGED <<send_task, finished>>
           ELSE /\ finished' = finished \cup {msg.n}
                /\ pending_sends' =
                       DequeAppend(pending_sends,
                                   _spool_large_message_immediately(msg),
                                   broadcaster_config.websocket_max_pending_sends)
                /\ UNCHANGED send_task
    /\ StaysOpen
    /\ UNCHANGED <<process_task, unprocessed_receives, expecting_acks,
                   standard_compressor, active_compressor, last_compressor,
                   trace, env>>
    /\ UNCHANGED loopFrame
    /\ UNCHANGED <<training_data, custom_compression_dict_counter,
                   backgrounded, wire, internal_receiver, handler>>

\* The message branch where the task it creates is taken to have run by the
\* next tick: message_task is done whenever the queue holds an item.
OpenMessage == MessageBranch(MessageTask(TRUE))

\* The message branch beside an event loop that runs the new task only when
\* the session awaits.
OpenMessageTask == MessageBranch(MessageTask(FALSE))

\* The event loop runs message_task.
MessageTaskRuns ==
    /\ st = "OPEN"
    /\ ~message_task.ran
    /\ message_task' = MessageTask(TRUE)
    /\ UNCHANGED <<st, arch, broadcaster_config, socket_level_config,
                   exact_subscriptions, glob_subscriptions, queue, read_task,
                   send_task, process_task, pending_sends, unprocessed_receives,
                   expecting_acks, incoming_notification, standard_compressor,
                   active_compressor, last_compressor, broadcaster_counter,
                   subscriber_counter, exception, client_session, hub, finished,
                   sent, ack_log, delivered, trace, env, training_data,
                   custom_compression_dict_counter, backgrounded, wire,
                   internal_receiver, handler>>

\* A comparison that leaves x-part-id out.
AckMatchesAnyPart(expecting_ack, message) ==
    /\ expecting_ack.type = message.type
    /\ expecting_ack.identifier = message.identifier

\* The comparison of an ack frame with the expectation popped for it.
AckMatches(expecting_ack, message) ==
    /\ expecting_ack.type = message.type
    /\ expecting_ack.identifier = message.identifier
    /\ message.type = "CONTINUE_RECEIVE" => expecting_ack.part_id = message.part_id

IsAck(message) == message.type \in {"CONTINUE_RECEIVE", "CONFIRM_RECEIVE"}

\* The number of expectations get_nowait() removes: one, unless the queue is
\* empty (QueueEmpty).
AckPops == IF expecting_acks = <<>> THEN 0 ELSE 1

\* _process_message_asap: an ack frame consumes the head of expecting_acks; any
\* other frame starts a processor, or waits in unprocessed_receives while one
\* runs.  ok is false when it raises.
_process_message_asap(message) ==
    IF IsAck(message)
    THEN LET ok == /\ expecting_acks # <<>>
                   /\ AckMatches(Head(expecting_acks), message)
         IN  /\ expecting_acks' = SubSeq(expecting_acks, AckPops + 1,
                                         Len(expecting_acks))
             /\ trace' = Trace("ack", message, ok)
             /\ IF ok THEN StaysOpen ELSE _cleanup_open(TRUE)
             /\ UNCHANGED <<process_task, unprocessed_receives>>
    ELSE /\ IF process_task # NoProcess
            THEN /\ unprocessed_receives' =
                        DequeAppend(unprocessed_receives, message,
                                    broadcaster_config.websocket_max_unprocessed_receives)
                 /\ UNCHANGED process_task
            ELSE /\ process_task' = ProcessTask(message)
                 /\ UNCHANGED unprocessed_receives
         /\ trace' = Trace("dispatch", message, TRUE)
         /\ StaysOpen
         /\ UNCHANGED expecting_acks

\* last_compressor is Preparing and its task is done: the compressor is
\* promoted and, on purpose, not announced.
OpenLastReady ==
    /\ st = "OPEN"
    /\ earlierThanCompressors /\ ~ActiveDone /\ ~StandardDone
    /\ ~MessageReady
    /\ LastDone
    /\ IF last_compressor.task = "failed"
       THEN _cleanup_open(TRUE) /\ UNCHANGED last_compressor
       ELSE /\ StaysOpen
            /\ last_compressor' = _CompressorReady(last_compressor.dictionary_id)
    /\ UNCHANGED <<queue, send_task, process_task, pending_sends,
                   unprocessed_receives, expecting_acks, standard_compressor,
                   active_compressor, finished, trace, env>>
    /\ UNCHANGED loopFrame
    /\ UNCHANGED trainFrame

\* A training that takes the counter's value and leaves the counter as it is.
SpawnTrainingSameId ==
    /\ _rotate_compressor(
           _CompressorPreparing(custom_compression_dict_counter, "running"))
    /\ UNCHANGED custom_compression_dict_counter

\* _check_training_data at a watermark: dictionary_id is taken from
\* custom_compression_dict_counter, the counter is incremented, and the task
\* that trains the dictionary makes the new active compressor.
SpawnTraining ==
    /\ _rotate_compressor(
           _CompressorPreparing(custom_compression_dict_counter, "running"))
    /\ custom_compression_dict_counter' = custom_compression_dict_counter + 1

\* if state.training_data is not None and state.training_data.dirty:
\* _check_training_data trains a dictionary at the low and at the high
\* watermark, each made by a task of the new active compressor.
OpenCheckTraining ==
    /\ st = "OPEN"
    /\ earlierThanCompressors /\ ~ActiveDone /\ ~StandardDone
    /\ ~MessageReady /\ ~LastDone /\ ~ReadReady
    /\ training_data # None
    /\ training_data.dirty
    /\ UNCHANGED <<wire, internal_receiver, handler, message_task>>
    /\ LET length == training_data.length
           low == broadcaster_config.compression_training_low_watermark
           high == broadcaster_config.compression_training_high_watermark
       IN   IF /\ training_data.type = "BEFORE_LOW_WATERMARK"
              /\ length >= high
           THEN /\ training_data' =
                       _CompressorTrainingInfo("BEFORE_HIGH_WATERMARK", length,
                                               TRUE, training_data.started_at)
                /\ UNCHANGED <<active_compressor, last_compressor,
                               custom_compression_dict_counter, backgrounded>>
           ELSE IF \/ /\ training_data.type = "BEFORE_LOW_WATERMARK"
                      /\ length < low
                   \/ /\ training_data.type = "BEFORE_HIGH_WATERMARK"
                      /\ length < high
           THEN /\ training_data' = [training_data EXCEPT !.dirty = FALSE]
                /\ UNCHANGED <<active_compressor, last_compressor,
                               custom_compression_dict_counter, backgrounded>>
           ELSE IF training_data.type = "BEFORE_LOW_WATERMARK"
           THEN /\ SpawnTraining
                /\ training_data' =
                       _CompressorTrainingInfo("BEFORE_HIGH_WATERMARK", length,
                                               FALSE, training_data.started_at)
           ELSE IF training_data.type = "BEFORE_HIGH_WATERMARK"
           THEN /\ SpawnTraining
                /\ training_data' =
                       _CompressorTrainingInfo("WAITING_TO_REFRESH", 0, FALSE,
                                               env.now)
           ELSE UNCHANGED <<training_data, active_compressor, last_compressor,
                            custom_compression_dict_counter, backgrounded>>
    /\ StaysOpen
    /\ UNCHANGED <<queue, send_task, process_task, pending_sends,
                   unprocessed_receives, expecting_acks, standard_compressor,
                   finished, trace, env>>
    /\ UNCHANGED loopFrame

\* if state.read_task.done(): a disconnect closes without an error, a text
\* message or bytes that do not parse close with one, a frame is dispatched.
\* read_task is left as it is: the same result is read on the next idle tick.
OpenRead ==
    /\ st = "OPEN"
    /\ earlierThanCompressors /\ ~ActiveDone /\ ~StandardDone
    /\ ~MessageReady /\ ~LastDone
    /\ ReadReady
    /\ env.recurring \/ env.dispatches < MaxDispatches
    /\ env' = [env EXCEPT !.dispatches = IF env.recurring THEN @ ELSE @ + 1]
    /\ LET raw_message == read_task.message
       IN  IF raw_message.type = "DISCONNECT"
           THEN /\ CleanupInTry(FALSE)
                /\ trace' = Trace("disconnect", raw_message, TRUE)
                /\ UNCHANGED <<process_task, unprocessed_receives, expecting_acks>>
           ELSE IF raw_message.type = "TEXT"
           THEN /\ CleanupInTry(TRUE)
                /\ trace' = Trace("unreadable", raw_message, FALSE)
                /\ UNCHANGED <<process_task, unprocessed_receives, expecting_acks>>
           ELSE IF raw_message.type = "MALFORMED"
           THEN /\ _cleanup_open(TRUE)
                /\ trace' = Trace("unreadable", raw_message, FALSE)
                /\ UNCHANGED <<process_task, unprocessed_receives, expecting_acks>>
           ELSE _process_message_asap(raw_message)
    /\ UNCHANGED <<queue, send_task, pending_sends, standard_compressor,
                   active_compressor, last_compressor, finished>>
    /\ UNCHANGED loopFrame
    /\ UNCHANGED trainFrame

\* _handle_accepting: accept() returns in time, or the timeout closes.
HandleAccepting ==
    /\ st = "ACCEPTING"
    /\ \E accepted \in BOOLEAN :
           st' = IF accepted THEN "OPEN" ELSE "CLOSING"
    /\ UNCHANGED <<arch, broadcaster_config, socket_level_config,
                   exact_subscriptions, glob_subscriptions, queue, read_task,
                   send_task, process_task, pending_sends, unprocessed_receives,
                   expecting_acks, incoming_notification, standard_compressor,
                   active_compressor, last_compressor, broadcaster_counter,
                   subscriber_counter, exception, client_session, hub, finished, sent, ack_log,
                   delivered, trace, env>>
    /\ UNCHANGED trainFrame

\* _handle_closing: close the websocket; a session that closed on an error
\* re-raises it out of _handle_until_closed, any other becomes Closed.
HandleClosing ==
    /\ st = "CLOSING"
    /\ st' = IF exception THEN "RAISED" ELSE "CLOSED"
    /\ UNCHANGED <<arch, broadcaster_config, socket_level_config,
                   exact_subscriptions, glob_subscriptions, queue, read_task,
                   send_task, process_task, pending_sends, unprocessed_receives,
                   expecting_acks, incoming_notification, standard_compressor,
                   active_compressor, last_compressor, broadcaster_counter,
                   subscriber_counter, exception, client_session, hub, finished, sent, ack_log,
                   delivered, trace, env>>
    /\ UNCHANGED trainFrame

(***************************************************************************)
(* The processors of the process slot.                                     *)
(***************************************************************************)

\* What no processor writes.
processFrame == <<st, arch, broadcaster_config, queue, unprocessed_receives,
                  expecting_acks, broadcaster_counter, exception, client_session, finished,
                  sent, ack_log, env>>

\* A coroutine whose exception is swallowed: it ends as if it had returned.
FailsQuietly(t) == [t EXCEPT !.pc = "done"]

Fails(t) == [t EXCEPT !.pc = "failed"]
Returns(t) == [t EXCEPT !.pc = "done"]

_Configuration(enable_zstd, enable_training, dictionary_id) ==
    [type |-> "CONFIGURATION", enable_zstd |-> enable_zstd,
     enable_training |-> enable_training, dictionary_id |-> dictionary_id]

\* _process_configure: it has no await, so the whole of it is one step.
ProcessConfigure ==
    /\ st = "OPEN"
    /\ process_task.pc = "created"
    /\ process_task.message.type = "CONFIGURE"
    /\ LET m == process_task.message
           rotates == /\ m.initial_dict # 0
                      /\ m.initial_dict # 1
                      /\ m.enable_zstd
                      /\ broadcaster_config.compression_allowed
                      /\ \/ active_compressor = NoCompressor
                         \/ m.initial_dict # active_compressor.dictionary_id
       IN  IF \/ socket_level_config # None
              \/ m.enable_training /\ ~m.enable_zstd
           THEN /\ process_task' = Fails(process_task)
                /\ UNCHANGED <<socket_level_config, standard_compressor,
                               active_compressor, last_compressor, backgrounded,
                               read_task, pending_sends, training_data>>
           ELSE /\ socket_level_config' =
                       _Configuration(m.enable_zstd, m.enable_training,
                                      m.initial_dict)
                /\ standard_compressor' =
                       IF m.enable_zstd THEN _CompressorPreparing(1, "running")
                       ELSE standard_compressor
                /\ training_data' =
                       IF ~m.enable_training THEN None ELSE training_data
                /\ IF rotates
                   THEN _rotate_compressor(
                            _CompressorPreparing(m.initial_dict, "running"))
                   ELSE UNCHANGED <<active_compressor, last_compressor,
                                    backgrounded>>
                /\ read_task' = ReadPending
                /\ pending_sends' =
                       DequeAppend(pending_sends,
                                   _FormattedMessage(
                                       SimpleFrame("CONFIRM_CONFIGURE", <<>>, 0, "")),
                                   broadcaster_config.websocket_max_pending_sends)
                /\ process_task' = Returns(process_task)
    /\ UNCHANGED <<exact_subscriptions, glob_subscriptions, send_task,
                   incoming_notification, subscriber_counter, hub, delivered,
                   trace>>
    /\ UNCHANGED processFrame
    /\ UNCHANGED <<custom_compression_dict_counter, wire, internal_receiver, handler, message_task>>

IsSubscription(message) ==
    message.type \in {"SUBSCRIBE_EXACT", "UNSUBSCRIBE_EXACT",
                      "SUBSCRIBE_GLOB", "UNSUBSCRIBE_GLOB"}

\* _process_subscribe_or_unsubscribe up to the await of the verifier:
\* _make_for_receive_websocket_url_and_change_counter asserts a configuration.
SubscribeBegin ==
    /\ st = "OPEN"
    /\ arch = "monolithic"
    /\ process_task.pc = "created"
    /\ IsSubscription(process_task.message)
    /\ IF socket_level_config = None
       THEN /\ process_task' = Fails(process_task)
            /\ UNCHANGED subscriber_counter
       ELSE /\ process_task' = [process_task EXCEPT !.pc = "at_auth"]
            /\ subscriber_counter' = subscriber_counter - 1
    /\ UNCHANGED <<socket_level_config, exact_subscriptions, glob_subscriptions,
                   read_task, send_task, pending_sends, incoming_notification,
                   standard_compressor, active_compressor, last_compressor, hub,
                   delivered, trace>>
    /\ UNCHANGED processFrame
    /\ UNCHANGED trainFrame

AuthResults == {"ok", "unauthorized", "forbidden", "unavailable"}

RemoveGlob(globs, glob) ==
    LET idx == CHOOSE i \in 1..Len(globs) : globs[i] = glob
    IN  SubSeq(globs, 1, idx - 1) \o SubSeq(globs, idx + 1, Len(globs))

\* _process_subscribe_or_unsubscribe from the verifier's answer to the await
\* of the hub: the local set or list is changed before the hub is called.
SubscribeResumeAuth ==
    /\ st = "OPEN"
    /\ arch = "monolithic"
    /\ process_task.pc = "at_auth"
    /\ IsSubscription(process_task.message)
    /\ \E auth_result \in AuthResults :
         LET m == process_task.message
             target == m.target
             t == [process_task EXCEPT !.auth_result = auth_result]
             refused ==
                 \/ auth_result # "ok"
                 \/ m.type = "SUBSCRIBE_EXACT" /\ target \in exact_subscriptions
                 \/ m.type = "UNSUBSCRIBE_EXACT" /\ target \notin exact_subscriptions
                 \/ m.type = "SUBSCRIBE_GLOB"
                    /\ target \in SeqToSet(glob_subscriptions)
                 \/ m.type = "UNSUBSCRIBE_GLOB"
                    /\ target \notin SeqToSet(glob_subscriptions)
         IN  IF refused
             THEN /\ process_task' = Fails(t)
                  /\ UNCHANGED <<exact_subscriptions, glob_subscriptions>>
             ELSE /\ process_task' = [t EXCEPT !.pc = "at_hub"]
                  /\ exact_subscriptions' =
                         CASE m.type = "SUBSCRIBE_EXACT" ->
                                  exact_subscriptions \cup {target}
                           [] m.type = "UNSUBSCRIBE_EXACT" ->
                                  exact_subscriptions \ {target}
                           [] OTHER -> exact_subscriptions
                  /\ glob_subscriptions' =
                         CASE m.type = "SUBSCRIBE_GLOB" ->
                                  Append(glob_subscriptions, target)
                           [] m.type = "UNSUBSCRIBE_GLOB" ->
                                  RemoveGlob(glob_subscriptions, target)
                           [] OTHER -> glob_subscriptions
    /\ UNCHANGED <<socket_level_config, read_task, send_task, pending_sends,
                   incoming_notification, standard_compressor, active_compressor,
                   last_compressor, subscriber_counter, hub, delivered, trace>>
    /\ UNCHANGED processFrame
    /\ UNCHANGED trainFrame

\* The hub takes note of increment_* or decrement_*; the call returns later.
HubApplies ==
    /\ st = "OPEN"
    /\ process_task.pc = "at_hub"
    /\ ~process_task.hub_applied
    /\ hub' = HubCall(hub, process_task.message.target,
                      IF process_task.message.type
                             \in {"SUBSCRIBE_EXACT", "SUBSCRIBE_GLOB"}
                      THEN "inc" ELSE "dec")
    /\ process_task' = [process_task EXCEPT !.hub_applied = TRUE]
    /\ UNCHANGED <<socket_level_config, exact_subscriptions, glob_subscriptions,
                   read_task, send_task, pending_sends, incoming_notification,
                   standard_compressor, active_compressor, last_compressor,
                   subscriber_counter, delivered, trace>>
    /\ UNCHANGED processFrame
    /\ UNCHANGED trainFrame

\* CONFIRM_SUBSCRIBE_EXACT and the three like it
ConfirmFrame(message) ==
    SimpleFrame("CONFIRM_" \o message.type, <<>>, 0, message.target)

\* _process_subscribe_or_unsubscribe after the hub's call returned: the
\* confirmation is made and sent, or queued behind the send in progress.
SubscribeResumeHub ==
    /\ st = "OPEN"
    /\ arch = "monolithic"
    /\ process_task.pc = "at_hub"
    /\ process_task.hub_applied
    /\ SendOrQueue(ConfirmFrame(process_task.message))
    /\ process_task' = Returns(process_task)
    /\ UNCHANGED <<socket_level_config, exact_subscriptions, glob_subscriptions,
                   read_task, incoming_notification, standard_compressor,
                   active_compressor, last_compressor, subscriber_counter, hub,
                   delivered, trace>>
    /\ UNCHANGED processFrame
    /\ UNCHANGED trainFrame

-----------------------------------------------------------------------------
\* The slot whose dictionary_id is compressor_id, looked up in the order
\* standard, active, last ("none" when no slot has it).
SlotOf(compressor_id) ==
    IF standard_compressor # NoCompressor
       /\ compressor_id = standard_compressor.dictionary_id THEN "standard"
    ELSE IF active_compressor # NoCompressor
            /\ compressor_id = active_compressor.dictionary_id THEN "active"
    ELSE IF last_compressor # NoCompressor
            /\ compressor_id = last_compressor.dictionary_id THEN "last"
    ELSE "none"

CompressorIn(slot) ==
    CASE slot = "standard" -> standard_compressor
      [] slot = "active" -> active_compressor
      [] slot = "last" -> last_compressor
      [] OTHER -> NoCompressor

\* One call of handle_trusted_notify: the payload handed to the fanout (by
\* its length), the content_length it is announced with, and the headers and
\* body of the notification it came from.
Delivery(kind, message_id, body, sha512, clen, dlen, payload_len, content_length, verified) ==
    [kind |-> kind, identifier |-> message_id, body |-> body, sha512 |-> sha512,
     compressed_length |-> clen, decompressed_length |-> dlen,
     payload_len |-> payload_len, content_length |-> content_length,
     verified |-> verified]

\* What config.get_subscribers yields for a topic, one entry per subscriber:
\* one that answers 2xx, one that answers an error, or "unavailable".
SubscriberLists ==
    {<<>>, <<"ok">>, <<"error">>, <<"unavailable">>, <<"ok", "unavailable">>}

\* handle_trusted_notify: subscribers are attempted in order and counted;
\* an "unavailable" entry ends the attempt.
RECURSIVE handle_trusted_notify(_, _)
handle_trusted_notify(subscribers, succeeded) ==
    IF subscribers = <<>> THEN [type |-> "OK", succeeded |-> succeeded]
    ELSE IF Head(subscribers) = "unavailable"
    THEN [type |-> "UNAVAILABLE", succeeded |-> succeeded]
    ELSE handle_trusted_notify(
             Tail(subscribers),
             succeeded + (IF Head(subscribers) = "ok" THEN 1 ELSE 0))

NotifyResults == {handle_trusted_notify(l, 0) : l \in SubscriberLists}

\* CONFIRM_NOTIFY that counts the sender among the subscribers reached.
ConfirmNotifyAndSender(message_id, succeeded) ==
    [SimpleFrame("CONFIRM_NOTIFY", message_id, 0, "")
     EXCEPT !.subscribers = ToBytes(succeeded + 1, 1)]

\* CONFIRM_NOTIFY with x-identifier and x-subscribers, the count in as few
\* bytes as hold it.
ConfirmNotify(message_id, succeeded) ==
    [SimpleFrame("CONFIRM_NOTIFY", message_id, 0, "")
     EXCEPT !.subscribers =
                ToBytes(succeeded, _smallest_unsigned_size(succeeded))]
ContinueNotify(message_id, part_id) ==
    SimpleFrame("CONTINUE_NOTIFY", message_id, part_id, "")

\* What the notify processors leave alone.
notifyFrame == <<socket_level_config, exact_subscriptions, glob_subscriptions,
                 read_task, standard_compressor, active_compressor,
                 last_compressor, subscriber_counter, hub>>

\* _process_notify up to the await of is_notify_allowed.
NotifyBegin ==
    /\ st = "OPEN"
    /\ process_task.pc = "created"
    /\ process_task.message.type = "NOTIFY"
    /\ LET m == process_task.message
       IN  process_task' =
               IF socket_level_config = None THEN Fails(process_task)
               ELSE IF /\ m.compressor # 0
                       /\ \/ ~broadcaster_config.compression_allowed
                          \/ ~socket_level_config.enable_zstd
               THEN Fails(process_task)
               ELSE [process_task EXCEPT !.pc = "at_auth"]
    /\ UNCHANGED <<send_task, pending_sends, incoming_notification, delivered,
                   trace>>
    /\ UNCHANGED notifyFrame
    /\ UNCHANGED processFrame
    /\ UNCHANGED trainFrame

\* The decompression of a NOTIFY body and the call of handle_trusted_notify.
NotifyDecompress(t) ==
    LET m == t.message
    IN  IF DecompressedLen(m.body) # m.decompressed_length
        THEN /\ process_task' = Fails(t)
             /\ UNCHANGED <<delivered, training_data>>
        ELSE /\ process_task' = [t EXCEPT !.pc = "at_fanout"]
             /\ training_data' =
                    _make_store_for_training_capturer(m.decompressed_length)
             /\ delivered' =
                    Record(delivered,
                           Delivery("NOTIFY", m.identifier, m.body, m.sha512,
                                    m.compressed_length, m.decompressed_length,
                                    DecompressedLen(m.body),
                                    m.decompressed_length, t.verified))

\* The length check alone.
NotifyIntegrityLengthOnly(m) == Len(m.body) = m.compressed_length

\* len(message.body) == compressed_length and the SHA-512 of the body is
\* x-compressed-sha512
NotifyIntegrity(m) ==
    /\ Len(m.body) = m.compressed_length
    /\ Sha512(m.body) = m.sha512

\* _process_notify from the verifier's answer to the next await: the length
\* and hash checks, the choice of the decompressor, the decompressed length.
NotifyResumeAuth ==
    /\ st = "OPEN"
    /\ process_task.pc = "at_auth"
    /\ process_task.message.type = "NOTIFY"
    /\ \E auth_result \in AuthResults :
         LET m == process_task.message
             t == [process_task EXCEPT !.verified = TRUE,
                                       !.slot = SlotOf(m.compressor)]
         IN  IF \/ auth_result # "ok"
                \/ ~NotifyIntegrity(m)
                \/ m.compressor # 0 /\ t.slot = "none"
             THEN /\ process_task' = Fails(process_task)
                  /\ UNCHANGED <<delivered, training_data>>
             ELSE IF m.compressor = 0
             THEN IF Len(m.body) # m.decompressed_length
                  THEN /\ process_task' = Fails(t)
                       /\ training_data' =
                              _store_small_for_compression_training(Len(m.body))
                       /\ UNCHANGED delivered
                  ELSE /\ process_task' = [t EXCEPT !.pc = "at_fanout"]
                       /\ training_data' =
                              _store_small_for_compression_training(Len(m.body))
                       /\ delivered' =
                              Record(delivered,
                                     Delivery("NOTIFY", m.identifier, m.body,
                                              m.sha512, m.compressed_length,
                                              m.decompressed_length, Len(m.body),
                                              m.decompressed_length, TRUE))
             ELSE IF CompressorIn(t.slot).type = "PREPARING"
             THEN /\ process_task' = [t EXCEPT !.pc = "at_comp"]
                  /\ UNCHANGED <<delivered, training_data>>
             ELSE NotifyDecompress(t)
    /\ UNCHANGED <<send_task, pending_sends, incoming_notification, trace>>
    /\ UNCHANGED notifyFrame
    /\ UNCHANGED processFrame
    /\ UNCHANGED <<custom_compression_dict_counter, backgrounded, wire, internal_receiver, handler, message_task>>

\* decompressor = await decompressor.task
NotifyResumeCompressor ==
    /\ st = "OPEN"
    /\ process_task.pc = "at_comp"
    /\ process_task.message.type = "NOTIFY"
    /\ CompressorIn(process_task.slot).task \in {"done", "failed"}
    /\ IF CompressorIn(process_task.slot).task = "failed"
       THEN /\ process_task' = Fails(process_task)
            /\ UNCHANGED <<delivered, training_data>>
       ELSE NotifyDecompress(process_task)
    /\ UNCHANGED <<send_task, pending_sends, incoming_notification, trace>>
    /\ UNCHANGED notifyFrame
    /\ UNCHANGED processFrame
    /\ UNCHANGED <<custom_compression_dict_counter, backgrounded, wire, internal_receiver, handler, message_task>>

\* _process_notify after handle_trusted_notify returned.
NotifyResumeFanout ==
    /\ st = "OPEN"
    /\ process_task.pc = "at_fanout"
    /\ process_task.message.type = "NOTIFY"
    /\ \E notify_result \in NotifyResults :
         LET t == [process_task EXCEPT !.notify_result = notify_result]
         IN  IF notify_result.type = "UNAVAILABLE"
             THEN /\ process_task' = Fails(t)
                  /\ UNCHANGED <<send_task, pending_sends>>
             ELSE /\ process_task' = Returns(t)
                  /\ SendOrQueue(ConfirmNotify(process_task.message.identifier,
                                               notify_result.succeeded))
    /\ UNCHANGED <<incoming_notification, delivered, trace>>
    /\ UNCHANGED notifyFrame
    /\ UNCHANGED processFrame
    /\ UNCHANGED trainFrame

-----------------------------------------------------------------------------
\* The decompression of a stream's body and the call of handle_trusted_notify.
StreamDecompress(t, notif) ==
    /\ training_data' =
           _make_store_for_training_capturer(notif.decompressed_length)
    /\ IF DecompressedLen(notif.body) # notif.decompressed_length
       THEN /\ process_task' = Fails(t)
            /\ UNCHANGED delivered
       ELSE /\ process_task' = [t EXCEPT !.pc = "at_fanout"]
            /\ delivered' =
                   Record(delivered,
                          Delivery("NOTIFY_STREAM", notif.identifier, notif.body,
                                   notif.compressed_sha512,
                                   notif.compressed_length,
                                   notif.decompressed_length,
                                   DecompressedLen(notif.body),
                                   notif.decompressed_length, t.verified))

\* The checks without "part 0 while a stream is open".
StreamRefusedUnlessReopened(old, m) ==
    \/ old # NoNotification /\ old.identifier # m.identifier
    \/ m.part_id # 0
       /\ (old = NoNotification \/ old.last_part_id + 1 # m.part_id)

\* The checks of identifier and part_id that open _process_notify_stream.
StreamRefused(old, m) ==
    \/ old # NoNotification /\ old.identifier # m.identifier
    \/ m.part_id = 0 /\ old # NoNotification
    \/ m.part_id # 0
       /\ (old = NoNotification \/ old.last_part_id + 1 # m.part_id)

\* _process_notify_stream up to its first await, or to its return: the
\* checks of identifier and part_id, the new _ReceivingNotify of part 0, the
\* append of the body, CONTINUE_NOTIFY while the body is short of
\* x-compressed-length, else the hash check and the call of the fanout.
\* last_part_id is set by part 0 and read by every later part; no line
\* assigns it again.
StreamBegin ==
    /\ st = "OPEN"
    /\ process_task.pc = "created"
    /\ process_task.message.type = "NOTIFY_STREAM"
    /\ LET m == process_task.message
           old == incoming_notification
           refused == StreamRefused(old, m)
           opened == IF m.part_id = 0 THEN _ReceivingNotify(m) ELSE old
           unknown == opened.compressor_id # 0
                      /\ SlotOf(opened.compressor_id) = "none"
           notif == [opened EXCEPT !.body = opened.body \o m.body,
                                   !.prev_part_id = m.part_id]
           t == [process_task EXCEPT !.slot = SlotOf(notif.compressor_id)]
       IN  IF refused
           THEN /\ process_task' = Fails(process_task)
                /\ UNCHANGED <<incoming_notification, send_task, pending_sends,
                               delivered, training_data>>
           ELSE IF unknown
           THEN /\ process_task' = Fails(process_task)
                /\ incoming_notification' = opened
                /\ UNCHANGED <<send_task, pending_sends, delivered,
                               training_data>>
           ELSE IF Len(notif.body) > notif.compressed_length
           THEN /\ process_task' = Fails(process_task)
                /\ incoming_notification' = notif
                /\ UNCHANGED <<send_task, pending_sends, delivered,
                               training_data>>
           ELSE IF Len(notif.body) < notif.compressed_length
           THEN /\ process_task' = Returns(process_task)
                /\ incoming_notification' = notif
                /\ SendOrQueue(ContinueNotify(notif.identifier, m.part_id))
                /\ UNCHANGED <<delivered, training_data>>
           ELSE IF Sha512(notif.body) # notif.compressed_sha512
           THEN /\ process_task' = Fails(process_task)
                /\ incoming_notification' = notif
                /\ UNCHANGED <<send_task, pending_sends, delivered,
                               training_data>>
           ELSE IF t.slot = "none"
           THEN /\ process_task' = [t EXCEPT !.pc = "at_fanout"]
                /\ incoming_notification' = notif
                /\ delivered' =
                       Record(delivered,
                              Delivery("NOTIFY_STREAM", notif.identifier,
                                       notif.body, notif.compressed_sha512,
                                       notif.compressed_length,
                                       notif.decompressed_length,
                                       Len(notif.body), notif.compressed_length,
                                       FALSE))
                /\ training_data' =
                       _make_store_for_training_capturer(
                           notif.decompressed_length)
                /\ UNCHANGED <<send_task, pending_sends>>
           ELSE IF CompressorIn(t.slot).type = "PREPARING"
           THEN /\ process_task' = [t EXCEPT !.pc = "at_comp"]
                /\ incoming_notification' = notif
                /\ UNCHANGED <<send_task, pending_sends, delivered,
                               training_data>>
           ELSE /\ StreamDecompress(t, notif)
                /\ incoming_notification' = notif
                /\ UNCHANGED <<send_task, pending_sends>>
    /\ UNCHANGED trace
    /\ UNCHANGED notifyFrame
    /\ UNCHANGED processFrame
    /\ UNCHANGED <<custom_compression_dict_counter, backgrounded, wire, internal_receiver, handler, message_task>>

\* compressor = await compressor.task
StreamResumeCompressor ==
    /\ st = "OPEN"
    /\ process_task.pc = "at_comp"
    /\ process_task.message.type = "NOTIFY_STREAM"
    /\ CompressorIn(process_task.slot).task \in {"done", "failed"}
    /\ IF CompressorIn(process_task.slot).task = "failed"
       THEN /\ process_task' = Fails(process_task)
            /\ UNCHANGED <<delivered, training_data>>
       ELSE StreamDecompress(process_task, incoming_notification)
    /\ UNCHANGED <<send_task, pending_sends, incoming_notification, trace>>
    /\ UNCHANGED notifyFrame
    /\ UNCHANGED processFrame
    /\ UNCHANGED <<custom_compression_dict_counter, backgrounded, wire, internal_receiver, handler, message_task>>

\* _process_notify_stream after handle_trusted_notify returned.
StreamResumeFanout ==
    /\ st = "OPEN"
    /\ process_task.pc = "at_fanout"
    /\ process_task.message.type = "NOTIFY_STREAM"
    /\ \E notify_result \in NotifyResults :
         LET t == [process_task EXCEPT !.notify_result = notify_result]
         IN  IF notify_result.type = "UNAVAILABLE"
             THEN /\ process_task' = Fails(t)
                  /\ UNCHANGED <<send_task, pending_sends,
                                 incoming_notification>>
             ELSE /\ process_task' = Returns(t)
                  /\ SendOrQueue(ConfirmNotify(incoming_notification.identifier,
                                               notify_result.succeeded))
                  /\ incoming_notification' = NoNotification
    /\ UNCHANGED <<delivered, trace>>
    /\ UNCHANGED notifyFrame
    /\ UNCHANGED processFrame
    /\ UNCHANGED trainFrame

(***************************************************************************)
(* The environment: the peer, the hub, the compressor tasks.               *)
(***************************************************************************)

Body1 == <<"a">>
Body2 == <<"a", "b">>

\* The frames the peer chooses from.
PlainConfigure == {Configure(FALSE, FALSE, 0)}
ZstdConfigure == {Configure(TRUE, FALSE, 0)}

ControlFrames ==
    {Control("SUBSCRIBE_EXACT", "t1"), Control("UNSUBSCRIBE_EXACT", "t1"),
     Control("SUBSCRIBE_GLOB", "g*"), Control("UNSUBSCRIBE_GLOB", "g*")}

AckFrames ==
    {Ack("CONFIRM_RECEIVE", <<1>>, 0), Ack("CONTINUE_RECEIVE", <<1>>, 0),
     Ack("CONTINUE_RECEIVE", <<1>>, 1), Ack("CONFIRM_RECEIVE", <<2>>, 0)}

NotifyFrames ==
    {Notify("NOTIFY", <<7>>, 0, 0, 1, 1, Sha512(Body1), Body1),
     Notify("NOTIFY", <<7>>, 0, 0, 2, 2, Sha512(Body2), Body1),
     Notify("NOTIFY_STREAM", <<8>>, 0, 0, 1, 1, Sha512(Body1), Body1),
     Notify("NOTIFY_STREAM", <<8>>, 0, 0, 2, 2, Sha512(Body2), Body1)}

UnreadableFrames == {InFrame("DISCONNECT"), InFrame("TEXT"), InFrame("MALFORMED")}

SessionFrames ==
    PlainConfigure \cup ControlFrames \cup NotifyFrames \cup UnreadableFrames

EgressFrames == ZstdConfigure \cup AckFrames

\* websocket.receive() of read_task returns what the peer sent.
PeerSends(frames) ==
    /\ st = "OPEN"
    /\ ~env.disconnected
    /\ ~read_task.done
    /\ env.frames < MaxFrames
    /\ \E f \in frames : read_task' = ReadDone(f)
    /\ env' = [env EXCEPT !.frames = @ + 1]
    /\ UNCHANGED <<st, arch, broadcaster_config, socket_level_config,
                   exact_subscriptions, glob_subscriptions, queue, send_task,
                   process_task, pending_sends, unprocessed_receives,
                   expecting_acks, incoming_notification, standard_compressor,
                   active_compressor, last_compressor, broadcaster_counter,
                   subscriber_counter, exception, client_session, hub, finished, sent, ack_log,
                   delivered, trace>>
    /\ UNCHANGED trainFrame

\* The transport disconnects: a websocket.receive() that is outstanding returns
\* the disconnect message; a read_task that is done keeps its result.
TransportDisconnects ==
    /\ st = "OPEN"
    /\ ~env.disconnected
    /\ env' = [env EXCEPT !.disconnected = TRUE]
    /\ read_task' = IF read_task.done THEN read_task
                    ELSE ReadDone(InFrame("DISCONNECT"))
    /\ UNCHANGED <<st, arch, broadcaster_config, socket_level_config,
                   exact_subscriptions, glob_subscriptions, queue, send_task,
                   process_task, pending_sends, unprocessed_receives,
                   expecting_acks, incoming_notification, standard_compressor,
                   active_compressor, last_compressor, broadcaster_counter,
                   subscriber_counter, exception, client_session, hub, finished, sent, ack_log,
                   delivered, trace>>
    /\ UNCHANGED trainFrame

\* time.time() advances by a second while the session is Open.
TimePasses ==
    /\ st = "OPEN"
    /\ env.now < MaxNow
    /\ env' = [env EXCEPT !.now = @ + 1]
    /\ UNCHANGED <<st, arch, broadcaster_config, socket_level_config,
                   exact_subscriptions, glob_subscriptions, queue, read_task,
                   send_task, process_task, pending_sends, unprocessed_receives,
                   expecting_acks, incoming_notification, standard_compressor,
                   active_compressor, last_compressor, broadcaster_counter,
                   subscriber_counter, exception, client_session, hub, finished,
                   sent, ack_log, delivered, trace>>
    /\ UNCHANGED trainFrame

\* The payload lengths of the hub's notifications.
SmallLengths == {0, 100, 700}
LargeLengths == {1024, 1200}
SessionLengths == {0, 100}

\* on_small_incoming / on_large_exclusive_incoming: the hub puts an item on
\* the receiver's queue.
HubDelivers(smalls, larges) ==
    /\ st = "OPEN"
    /\ env.deliveries < MaxDeliveries
    /\ \E topic \in Topics :
         \E msg \in {Message("SMALL", topic, l, env.deliveries + 1,
                             is_relevant(topic)) : l \in smalls}
                    \cup {Message("LARGE", topic, l, env.deliveries + 1,
                                  is_relevant(topic)) : l \in larges} :
            queue' = Append(queue, msg)
    /\ env' = [env EXCEPT !.deliveries = @ + 1]
    /\ UNCHANGED <<st, arch, broadcaster_config, socket_level_config,
                   exact_subscriptions, glob_subscriptions, read_task, send_task,
                   process_task, pending_sends, unprocessed_receives,
                   expecting_acks, incoming_notification, standard_compressor,
                   active_compressor, last_compressor, broadcaster_counter,
                   subscriber_counter, exception, client_session, hub, finished, sent, ack_log,
                   delivered, trace>>
    /\ UNCHANGED trainFrame

\* The task of a Preparing compressor ends: _make_standard_compressor returns,
\* _make_compressor returns or raises "dictionary not found".
CompressorTaskEnds ==
    /\ st = "OPEN"
    /\ \E slot \in {"standard", "active", "last"}, outcome \in {"done", "failed"} :
         /\ CompressorIn(slot).type = "PREPARING"
         /\ CompressorIn(slot).task = "running"
         /\ slot = "standard" => outcome = "done"
         /\ standard_compressor' =
                IF slot = "standard"
                THEN [standard_compressor EXCEPT !.task = outcome]
                ELSE standard_compressor
         /\ active_compressor' =
                IF slot = "active"
                THEN [active_compressor EXCEPT !.task = outcome]
                ELSE active_compressor
         /\ last_compressor' =
                IF slot = "last"
                THEN [last_compressor EXCEPT !.task = outcome]
                ELSE last_compressor
    /\ UNCHANGED <<st, arch, broadcaster_config, socket_level_config,
                   exact_subscriptions, glob_subscriptions, queue, read_task,
                   send_task, process_task, pending_sends, unprocessed_receives,
                   expecting_acks, incoming_notification,
                   broadcaster_counter, subscriber_counter, exception, client_session, hub,
                   finished, sent, ack_log, delivered, trace, env>>
    /\ UNCHANGED trainFrame

(***************************************************************************)
(* The session: Init is the state _handle_accepting is entered with.       *)
(***************************************************************************)

Config(max_unacknowledged, direct_send_timeout) ==
    [outgoing_max_ws_message_size |-> 600,
     websocket_send_max_unacknowledged |-> max_unacknowledged,
     compression_allowed |-> TRUE,
     compression_min_size |-> 32,
     compression_trained_max_size |-> 1100,
     websocket_large_direct_send_timeout |-> direct_send_timeout,
     websocket_max_pending_sends |-> 1,
     websocket_max_unprocessed_receives |-> 1,
     allow_training |-> FALSE,
     compression_training_low_watermark |-> 100,
     compression_training_high_watermark |-> 200,
     compression_retrain_interval_seconds |-> 2]

Configs == {Config(0, TRUE)}

\* The environment's record: what the peer and the hub did so far, whether
\* the transport has disconnected, and whether the run is one of recurring
\* behaviour, where read ticks are not counted and histories saturate.
Env(recurring) ==
    [frames |-> 0, deliveries |-> 0, dispatches |-> 0, disconnected |-> FALSE,
     recurring |-> recurring, raising |-> FALSE, now |-> 0]

InitOpenFields ==
    /\ arch = "monolithic"
    /\ exact_subscriptions = {}
    /\ glob_subscriptions = <<>>
    /\ queue = <<>>
    /\ read_task = ReadPending
    /\ send_task = NoTask
    /\ process_task = NoProcess
    /\ pending_sends = <<>>
    /\ unprocessed_receives = <<>>
    /\ expecting_acks = <<>>
    /\ incoming_notification = NoNotification
    /\ active_compressor = NoCompressor
    /\ last_compressor = NoCompressor
    /\ training_data =
           IF ~broadcaster_config.allow_training THEN None
           ELSE _CompressorTrainingInfo("BEFORE_LOW_WATERMARK", 0, FALSE, 0)
    /\ broadcaster_counter = 1
    /\ subscriber_counter = -1
    /\ custom_compression_dict_counter = FirstCustomId
    /\ backgrounded = {}
    /\ internal_receiver = {}
    /\ handler = Handler("none")
    /\ message_task = MessageTask(TRUE)
    /\ exception = FALSE
    /\ client_session = [closes |-> 0]
    /\ hub = [k \in Keys |-> [inc |-> 0, dec |-> 0]]
    /\ finished = {}
    /\ ack_log = <<>>
    /\ delivered = <<>>
    /\ trace = [tick |-> 0, op |-> "none", message |-> NoInFrame, ok |-> TRUE]

Init ==
    /\ st = "ACCEPTING"
    /\ broadcaster_config \in Configs
    /\ socket_level_config = None
    /\ standard_compressor = NoCompressor
    /\ sent = <<>>
    /\ InitOpenFields
    /\ env = Env(FALSE)
    /\ wire = NoWire

\* The session with a peer that configures, subscribes and publishes, and a
\* hub that delivers Small items.
Next ==
    \/ HandleAccepting \/ HandleClosing
    \/ OpenLaunchSend \/ OpenDispatchUnprocessed \/ OpenSendDone
    \/ OpenProcessDone \/ OpenMessage \/ OpenRead
    \/ SendFormatted \/ SmallBegin \/ SmallResumeAuth \/ SmallResumeSend
    \/ ProcessConfigure
    \/ SubscribeBegin \/ SubscribeResumeAuth \/ HubApplies \/ SubscribeResumeHub
    \/ NotifyBegin \/ NotifyResumeAuth \/ NotifyResumeFanout
    \/ StreamBegin \/ StreamResumeFanout
    \/ PeerSends(SessionFrames) \/ HubDelivers(SessionLengths, {})
    \/ SendBytesRaises

Spec == Init /\ [][Next]_vars

\* A branch of _handle_open that consumes what made it ready applies: the tick
\* returns without an await and _handle_until_closed starts the next one.  The
\* read branch is not among them: it leaves its read in place, its ticks are
\* bounded by MaxDispatches, and tasks step between them as they do in Spec.
LoopReturnsEarly ==
    \/ PendingSendReady \/ UnprocessedReady \/ SendTaskDone \/ ProcessTaskDone
    \/ ActiveDone \/ StandardDone \/ MessageReady \/ LastDone
    \/ training_data # None /\ training_data.dirty

\* The loop has no such branch to take: only then does the event loop run the
\* send task, the process task and the callbacks of the transport and of the
\* hub.
LoopAwaits == st = "OPEN" /\ ~LoopReturnsEarly

\* The same session beside collaborators whose calls may raise while the
\* session is torn down.
InitTeardown ==
    /\ st = "ACCEPTING"
    /\ broadcaster_config \in Configs
    /\ socket_level_config = None
    /\ standard_compressor = NoCompressor
    /\ sent = <<>>
    /\ InitOpenFields
    /\ env = [Env(FALSE) EXCEPT !.raising = TRUE]
    /\ wire = NoWire

SpecTeardown == InitTeardown /\ [][Next]_vars

\* The session with a peer that configures and acknowledges, and a hub that
\* delivers Small and Large items of every length.
InitSend ==
    /\ st = "ACCEPTING"
    /\ broadcaster_config \in {Config(1, TRUE), Config(0, TRUE)}
    /\ socket_level_config = None
    /\ standard_compressor = NoCompressor
    /\ sent = <<>>
    /\ InitOpenFields
    /\ env = Env(FALSE)
    /\ wire = NoWire

NextSend ==
    \/ HandleAccepting \/ HandleClosing
    \/ OpenLaunchSend \/ OpenSendDone \/ OpenProcessDone \/ OpenStandardReady
    \/ OpenMessage \/ OpenRead
    \/ ResumePut \/ SendFormatted
    \/ SmallBegin \/ SmallResumeAuth \/ SmallResumeSend
    \/ SpooledBegin \/ SpooledResumeAuth \/ SpooledResumeSend
    \/ AwaitStandard \/ CompressedRead \/ CompressedResumeAuth
    \/ CompressedResumeSend
    \/ DirectBegin \/ DirectResumeAuth \/ SenderPut \/ SenderSend
    \/ SpoolTimeout \/ DirectResumeWait \/ DirectRespool \/ DirectAwaitSender
    \/ DirectResumeAuthRespooled \/ DirectResumeSend
    \/ ProcessConfigure
    \/ PeerSends(EgressFrames) \/ HubDelivers(SmallLengths, LargeLengths)
    \/ CompressorTaskEnds \/ SendBytesRaises

SpecSend == InitSend /\ [][NextSend]_vars

\* The session of SpecSend where Small items too reach
\* compression_trained_max_size.
InitCompress ==
    /\ st = "ACCEPTING"
    /\ broadcaster_config \in
           {Config(1, TRUE),
            [Config(1, TRUE) EXCEPT !.compression_trained_max_size = 512]}
    /\ socket_level_config = None
    /\ standard_compressor = NoCompressor
    /\ sent = <<>>
    /\ InitOpenFields
    /\ env = Env(FALSE)
    /\ wire = NoWire

SpecCompress == InitCompress /\ [][NextSend]_vars

\* The session of SpecSend under a broadcaster that allows compression and
\* under one that forbids it.
InitForbidden ==
    /\ st = "ACCEPTING"
    /\ broadcaster_config \in
           {Config(1, TRUE),
            [Config(0, TRUE) EXCEPT !.compression_allowed = FALSE]}
    /\ socket_level_config = None
    /\ standard_compressor = NoCompressor
    /\ sent = <<>>
    /\ InitOpenFields
    /\ env = Env(FALSE)
    /\ wire = NoWire

SpecForbidden == InitForbidden /\ [][NextSend]_vars

\* The frames of the peer of SpecTurns: those of SpecSend and the control
\* frames of Spec; the hub delivers one Small length and the Large ones.
TurnFrames == EgressFrames \cup ControlFrames
TurnSmallLengths == {100}

InitTurns ==
    /\ st = "ACCEPTING"
    /\ broadcaster_config = Config(1, TRUE)
    /\ socket_level_config = None
    /\ standard_compressor = NoCompressor
    /\ sent = <<>>
    /\ InitOpenFields
    /\ env = Env(FALSE)
    /\ wire = NoWire

\* The session of Spec and of SpecSend under the scheduling of asyncio: ticks
\* of the loop that return early follow each other with nothing in between,
\* and a task or the environment takes a step only while the loop awaits.
NextTurns ==
    \/ HandleAccepting \/ HandleClosing
    \/ OpenLaunchSend \/ OpenDispatchUnprocessed \/ OpenSendDone
    \/ OpenProcessDone \/ OpenStandardReady \/ OpenMessage \/ OpenRead
    \/ LoopAwaits /\ SendFormatted
    \/ LoopAwaits /\ ResumePut
    \/ LoopAwaits /\ SmallBegin
    \/ LoopAwaits /\ SmallResumeAuth
    \/ LoopAwaits /\ SmallResumeSend
    \/ LoopAwaits /\ SpooledBegin
    \/ LoopAwaits /\ SpooledResumeAuth
    \/ LoopAwaits /\ SpooledResumeSend
    \/ LoopAwaits /\ AwaitStandard
    \/ LoopAwaits /\ CompressedRead
    \/ LoopAwaits /\ CompressedResumeAuth
    \/ LoopAwaits /\ CompressedResumeSend
    \/ LoopAwaits /\ DirectBegin
    \/ LoopAwaits /\ DirectResumeAuth
    \/ LoopAwaits /\ SenderPut
    \/ LoopAwaits /\ SenderSend
    \/ LoopAwaits /\ SpoolTimeout
    \/ LoopAwaits /\ DirectResumeWait
    \/ LoopAwaits /\ DirectRespool
    \/ LoopAwaits /\ DirectAwaitSender
    \/ LoopAwaits /\ DirectResumeAuthRespooled
    \/ LoopAwaits /\ DirectResumeSend
    \/ LoopAwaits /\ ProcessConfigure
    \/ LoopAwaits /\ SubscribeBegin
    \/ LoopAwaits /\ SubscribeResumeAuth
    \/ LoopAwaits /\ HubApplies
    \/ LoopAwaits /\ SubscribeResumeHub
    \/ LoopAwaits /\ PeerSends(TurnFrames)
    \/ LoopAwaits /\ HubDelivers(TurnSmallLengths, LargeLengths)
    \/ LoopAwaits /\ CompressorTaskEnds
    \/ LoopAwaits /\ SendBytesRaises

SpecTurns == InitTurns /\ [][NextTurns]_vars

(***************************************************************************)
(* The processors of NOTIFY and NOTIFY_STREAM applied to frames drawn from *)
(* a bounded set, in a configured Open session.                            *)
(***************************************************************************)

Stream0(message_id, compressor, dlen, sha512, body) ==
    Notify("NOTIFY_STREAM", message_id, 0, compressor, 2, dlen, sha512, body)

StreamPart(message_id, part_id, body) ==
    Notify("NOTIFY_STREAM", message_id, part_id, 0, 0, 0, <<>>, body)

IngressFrames ==
    {Notify("NOTIFY", <<7>>, 0, 0, 1, 1, Sha512(Body1), Body1),
     Notify("NOTIFY", <<7>>, 0, 0, 2, 2, Sha512(Body1), Body1),
     Notify("NOTIFY", <<7>>, 0, 0, 1, 1, Sha512(Body2), Body1),
     Notify("NOTIFY", <<7>>, 0, 0, 1, 2, Sha512(Body1), Body1),
     Notify("NOTIFY", <<7>>, 0, 1, 1, 2, Sha512(Body1), Body1),
     Notify("NOTIFY", <<7>>, 0, 1, 1, 1, Sha512(Body1), Body1),
     Notify("NOTIFY", <<7>>, 0, 3, 1, 2, Sha512(Body1), Body1),
     Stream0(<<8>>, 0, 2, Sha512(Body2), Body1),
     Stream0(<<8>>, 0, 2, Sha512(Body2), Body2),
     Stream0(<<8>>, 0, 4, Sha512(Body2), Body2),
     Stream0(<<8>>, 0, 2, Sha512(Body1), Body2),
     Stream0(<<8>>, 0, 2, Sha512(Body2), <<"a", "b", "b">>),
     Stream0(<<8>>, 1, 4, Sha512(Body2), Body2),
     Stream0(<<8>>, 1, 2, Sha512(Body2), Body2),
     Stream0(<<8>>, 3, 4, Sha512(Body2), Body2),
     Stream0(<<9>>, 0, 2, Sha512(Body2), Body1),
     StreamPart(<<8>>, 1, <<"b">>),
     StreamPart(<<8>>, 2, <<"b">>),
     StreamPart(<<9>>, 1, <<"b">>)}

\* state.process_task = asyncio.create_task(_PROCESSOR_BY_TYPE[type](state, message))
IngressDispatch ==
    /\ st = "OPEN"
    /\ process_task = NoProcess
    /\ env.frames < MaxFrames
    /\ \E f \in IngressFrames :
         /\ process_task' = ProcessTask(f)
         /\ trace' = Trace("dispatch", f, TRUE)
    /\ env' = [env EXCEPT !.frames = @ + 1]
    /\ UNCHANGED <<st, arch, broadcaster_config, socket_level_config,
                   exact_subscriptions, glob_subscriptions, queue, read_task,
                   send_task, pending_sends, unprocessed_receives,
                   expecting_acks, incoming_notification, standard_compressor,
                   active_compressor, last_compressor, broadcaster_counter,
                   subscriber_counter, exception, client_session, hub, finished, sent, ack_log,
                   delivered>>
    /\ UNCHANGED trainFrame

\* The Open session after CONFIGURE was processed and confirmed.
InitIngress ==
    /\ st = "OPEN"
    /\ broadcaster_config \in Configs
    /\ \E enable_zstd \in BOOLEAN :
         /\ socket_level_config = _Configuration(enable_zstd, FALSE, 0)
         /\ standard_compressor \in
                IF enable_zstd
                THEN {_CompressorPreparing(1, "running"), _CompressorReady(1)}
                ELSE {NoCompressor}
    /\ sent = <<SimpleFrame("CONFIRM_CONFIGURE", <<>>, 0, "")>>
    /\ InitOpenFields
    /\ env = Env(FALSE)
    /\ wire = NoWire

NextIngress ==
    \/ IngressDispatch
    \/ NotifyBegin \/ NotifyResumeAuth \/ NotifyResumeCompressor
    \/ NotifyResumeFanout
    \/ StreamBegin \/ StreamResumeCompressor \/ StreamResumeFanout
    \/ OpenLaunchSend \/ OpenSendDone \/ OpenProcessDone \/ OpenStandardReady
    \/ SendFormatted \/ CompressorTaskEnds \/ HandleClosing

SpecIngress == InitIngress /\ [][NextIngress]_vars

(***************************************************************************)
(* Recurring behaviour: a configured Open session whose peer sends one     *)
(* frame and whose transport then disconnects.  The loop and the tasks it  *)
(* started always get to run; the peer, the transport and a failing        *)
(* send_bytes are under no obligation.                                     *)
(***************************************************************************)

LiveFrames ==
    {Notify("NOTIFY", <<7>>, 0, 0, 1, 1, Sha512(Body1), Body1),
     Notify("NOTIFY", <<7>>, 0, 0, 1, 1, Sha512(Body2), Body1),
     Notify("NOTIFY_STREAM", <<8>>, 0, 0, 1, 1, Sha512(Body1), Body1),
     Ack("CONFIRM_RECEIVE", <<1>>, 0)}
    \cup ControlFrames

InitLive ==
    /\ st = "OPEN"
    /\ broadcaster_config \in Configs
    /\ socket_level_config = _Configuration(FALSE, FALSE, 0)
    /\ standard_compressor = NoCompressor
    /\ sent = <<SimpleFrame("CONFIRM_CONFIGURE", <<>>, 0, "")>>
    /\ InitOpenFields
    /\ env = Env(TRUE)
    /\ wire = NoWire

\* One tick of _handle_open, or of _handle_closing.
LoopTick ==
    \/ OpenLaunchSend \/ OpenDispatchUnprocessed \/ OpenSendDone
    \/ OpenProcessDone \/ OpenRead \/ HandleClosing

\* One step of the coroutine in process_task.
ProcessStep ==
    \/ NotifyBegin \/ NotifyResumeAuth \/ NotifyResumeFanout
    \/ StreamBegin \/ StreamResumeFanout
    \/ SubscribeBegin \/ SubscribeResumeAuth \/ HubApplies \/ SubscribeResumeHub

NextLive ==
    \/ LoopTick \/ ProcessStep \/ SendFormatted
    \/ PeerSends(LiveFrames) \/ TransportDisconnects \/ SendBytesRaises

\* asyncio runs every task that is ready: the session's loop, the send task
\* and the process task.
FairLive ==
    /\ WF_vars(LoopTick)
    /\ WF_vars(ProcessStep)
    /\ WF_vars(SendFormatted)

SpecLive == InitLive /\ [][NextLive]_vars /\ FairLive

\* The configured session beside a hub that delivers Small items and a peer
\* that sends a frame, under the scheduling of asyncio: a tick that returns
\* without an await is followed by the next tick, and the event loop runs
\* the tasks, the hub and the transport only while _handle_open is in
\* asyncio.wait.  The read branch leaves its read in place, so no tick
\* after it reaches asyncio.wait, and the processor it dispatched to never
\* runs.
FanoutFrames == {Control("SUBSCRIBE_EXACT", "t1"), Ack("CONFIRM_RECEIVE", <<1>>, 0)}

LoopWaits == LoopAwaits /\ ~ReadReady

FanoutTick ==
    \/ OpenLaunchSend \/ OpenSendDone \/ OpenMessageTask \/ OpenRead
    \/ HandleClosing

FanoutTask ==
    \/ LoopWaits /\ MessageTaskRuns
    \/ LoopWaits /\ SmallBegin
    \/ LoopWaits /\ SmallResumeAuth
    \/ LoopWaits /\ SmallResumeSend

\* The tasks the last ticks created have run up to their first await: the
\* event loop runs them before a callback of the hub or of the transport
\* wakes the session.
TasksStarted ==
    /\ message_task.ran
    /\ send_task = NoTask \/ send_task.pc # "created"

\* The Small items the hub may put on the queue in one pass of the event
\* loop, numbered from the deliveries made so far.
Deliveries(count) ==
    [i \in 1..count |->
        Message("SMALL", "t1", 100, env.deliveries + i, is_relevant("t1"))]

\* One pass of the event loop while the session is in asyncio.wait: the
\* callbacks that are ready run before the session's wake-up does, so the hub
\* may put several items on the queue and the transport may complete the
\* read in the same pass.
EventLoopPass ==
    /\ LoopWaits
    /\ TasksStarted
    /\ \E count \in 0..(MaxDeliveries - env.deliveries) :
         \E frames \in {{}, FanoutFrames} :
           /\ count > 0 \/ frames # {}
           /\ frames # {} => ~env.disconnected /\ env.frames < MaxFrames
           /\ queue' = queue \o Deliveries(count)
           /\ IF frames = {} THEN read_task' = read_task
              ELSE \E f \in frames : read_task' = ReadDone(f)
           /\ env' = [env EXCEPT !.deliveries = @ + count,
                                 !.frames = IF frames = {} THEN @ ELSE @ + 1]
    /\ UNCHANGED <<st, arch, broadcaster_config, socket_level_config,
                   exact_subscriptions, glob_subscriptions, send_task,
                   process_task, pending_sends, unprocessed_receives,
                   expecting_acks, incoming_notification, standard_compressor,
                   active_compressor, last_compressor, broadcaster_counter,
                   subscriber_counter, exception, client_session, hub, finished,
                   sent, ack_log, delivered, trace>>
    /\ UNCHANGED trainFrame

NextFanout == FanoutTick \/ FanoutTask \/ EventLoopPass

\* The loop and the tasks the event loop can run always get to run.
FairFanout == WF_vars(FanoutTick) /\ WF_vars(FanoutTask)

SpecFanout == InitLive /\ [][NextFanout]_vars /\ FairFanout

(***************************************************************************)
(* The session with compression training: the peer asks for a preset       *)
(* dictionary and for training, the hub delivers Small items that fill the *)
(* collector to the low and then to the high watermark.                    *)
(***************************************************************************)

ConfigTraining == [Config(0, TRUE) EXCEPT !.allow_training = TRUE]

TrainFrames == {Configure(TRUE, TRUE, 2)}

TrainLengths == {100}

InitTrain ==
    /\ st = "ACCEPTING"
    /\ broadcaster_config = ConfigTraining
    /\ socket_level_config = None
    /\ standard_compressor = NoCompressor
    /\ sent = <<>>
    /\ InitOpenFields
    /\ env = Env(FALSE)
    /\ wire = NoWire

NextTrain ==
    \/ HandleAccepting \/ HandleClosing
    \/ OpenLaunchSend \/ OpenDispatchUnprocessed \/ OpenSendDone
    \/ OpenProcessDone \/ OpenActiveReady \/ OpenStandardReady
    \/ OpenMessage \/ OpenLastReady \/ OpenRead \/ OpenCheckTraining
    \/ SendFormatted \/ SmallBegin \/ SmallResumeAuth \/ SmallResumeSend
    \/ ProcessConfigure
    \/ PeerSends(TrainFrames) \/ HubDelivers(TrainLengths, {})
    \/ CompressorTaskEnds \/ SendBytesRaises

SpecTrain == InitTrain /\ [][NextTrain]_vars

\* The session of SpecTrain under the scheduling of SpecTurns while the clock
\* advances, with items that fill the collector to a watermark one or two at
\* a time.
RetrainLengths == {100, 200}

NextRetrain ==
    \/ HandleAccepting \/ HandleClosing
    \/ OpenLaunchSend \/ OpenDispatchUnprocessed \/ OpenSendDone
    \/ OpenProcessDone \/ OpenActiveReady \/ OpenStandardReady
    \/ OpenMessage \/ OpenLastReady \/ OpenRead \/ OpenCheckTraining
    \/ LoopAwaits /\ SendFormatted
    \/ LoopAwaits /\ SmallBegin
    \/ LoopAwaits /\ SmallResumeAuth
    \/ LoopAwaits /\ SmallResumeSend
    \/ LoopAwaits /\ ProcessConfigure
    \/ LoopAwaits /\ PeerSends(TrainFrames)
    \/ LoopAwaits /\ HubDelivers(RetrainLengths, {})
    \/ LoopAwaits /\ CompressorTaskEnds
    \/ LoopAwaits /\ TimePasses

SpecRetrain == InitTrain /\ [][NextRetrain]_vars

\* The session of SpecTrain with Large items, whose payload a capturer copies
\* to the collector while it is sent, under the scheduling of SpecTurns.
CaptureFrames ==
    {Configure(TRUE, TRUE, 0), Configure(TRUE, FALSE, 0)} \cup AckFrames

InitCapture ==
    /\ st = "ACCEPTING"
    /\ broadcaster_config \in
           {[Config(k, TRUE) EXCEPT !.allow_training = TRUE] : k \in {0, 1}}
    /\ socket_level_config = None
    /\ standard_compressor = NoCompressor
    /\ sent = <<>>
    /\ InitOpenFields
    /\ env = Env(FALSE)
    /\ wire = NoWire

NextCapture ==
    \/ HandleAccepting \/ HandleClosing
    \/ OpenLaunchSend \/ OpenDispatchUnprocessed \/ OpenSendDone
    \/ OpenProcessDone \/ OpenActiveReady \/ OpenStandardReady
    \/ OpenMessage \/ OpenLastReady \/ OpenRead \/ OpenCheckTraining
    \/ LoopAwaits /\ SendFormatted
    \/ LoopAwaits /\ ResumePut
    \/ LoopAwaits /\ SmallBegin
    \/ LoopAwaits /\ SmallResumeAuth
    \/ LoopAwaits /\ SmallResumeSend
    \/ LoopAwaits /\ SpooledBegin
    \/ LoopAwaits /\ SpooledResumeAuth
    \/ LoopAwaits /\ SpooledResumeSend
    \/ LoopAwaits /\ AwaitStandard
    \/ LoopAwaits /\ CompressedRead
    \/ LoopAwaits /\ CompressedResumeAuth
    \/ LoopAwaits /\ CompressedResumeSend
    \/ LoopAwaits /\ DirectBegin
    \/ LoopAwaits /\ DirectResumeAuth
    \/ LoopAwaits /\ SenderPut
    \/ LoopAwaits /\ SenderSend
    \/ LoopAwaits /\ SpoolTimeout
    \/ LoopAwaits /\ DirectResumeWait
    \/ LoopAwaits /\ DirectRespool
    \/ LoopAwaits /\ DirectAwaitSender
    \/ LoopAwaits /\ DirectResumeAuthRespooled
    \/ LoopAwaits /\ DirectResumeSend
    \/ LoopAwaits /\ ProcessConfigure
    \/ LoopAwaits /\ PeerSends(CaptureFrames)
    \/ LoopAwaits /\ HubDelivers(TrainLengths, LargeLengths)
    \/ LoopAwaits /\ CompressorTaskEnds

SpecCapture == InitCapture /\ [][NextCapture]_vars

(***************************************************************************)
(* ws/handlers/waiting_configure.py: the refactored session between the    *)
(* accept and the Open state.  The handler is suspended at read_task, at   *)
(* register_receiver or at unregister_receiver; what it runs between two   *)
(* of them is one step.                                                    *)
(***************************************************************************)

\* ConnectionConfiguration
ConnectionConfiguration(enable_zstd, enable_training) ==
    [type |-> "CONFIGURATION", enable_zstd |-> enable_zstd,
     enable_training |-> enable_training]

\* The identifier register_receiver returns for the session's receiver.
ReceiverId == 1

\* What the handler never writes.
waitingFrame ==
    <<arch, broadcaster_config, exact_subscriptions, glob_subscriptions, queue,
      pending_sends, unprocessed_receives, expecting_acks, incoming_notification,
      last_compressor, exception, hub, finished, sent, ack_log, delivered,
      trace, custom_compression_dict_counter, backgrounded, wire,
      message_task>>

\* What the handler writes only when it returns StateOpen.
openFields ==
    <<socket_level_config, standard_compressor, active_compressor,
      training_data, broadcaster_counter, subscriber_counter, send_task,
      process_task, client_session>>

WaitingFrames ==
    {Configure(z, t, d) : z \in BOOLEAN, t \in BOOLEAN, d \in {0, 2}}
    \cup {InFrame("DISCONNECT"), InFrame("TEXT"), InFrame("MALFORMED"),
          Control("SUBSCRIBE_EXACT", "t1")}

\* websocket.receive() of read_task returns what the peer sent, or the
\* disconnect of the transport.
WaitingPeerSends ==
    /\ st = "WAITING_CONFIGURE"
    /\ ~read_task.done
    /\ \E f \in WaitingFrames : read_task' = ReadDone(f)
    /\ env' = [env EXCEPT !.frames = @ + 1]
    /\ UNCHANGED <<st, internal_receiver, handler>>
    /\ UNCHANGED openFields
    /\ UNCHANGED waitingFrame

\* handle_waiting_configure from `await state.read_task` to the await of
\* register_receiver: a disconnect, a message that is not binary and a frame
\* of another type return StateClosing; a frame whose prefix or whose
\* CONFIGURE the parser rejects raises.
WaitingRead ==
    /\ st = "WAITING_CONFIGURE"
    /\ handler.pc = "read"
    /\ read_task.done
    /\ LET m == read_task.message
       IN  CASE m.type \in {"DISCONNECT", "TEXT"} ->
                    /\ st' = "CLOSING"
                    /\ handler' = [handler EXCEPT !.pc = "returned"]
             [] m.type = "MALFORMED" ->
                    /\ st' = st
                    /\ handler' = [handler EXCEPT !.pc = "raised"]
             [] m.type # "CONFIGURE" ->
                    /\ st' = "CLOSING"
                    /\ handler' = [handler EXCEPT !.pc = "returned"]
             [] OTHER ->
                    /\ st' = st
                    /\ \E parsed \in BOOLEAN :
                         handler' =
                             [handler EXCEPT !.pc = IF parsed THEN "register"
                                                    ELSE "raised"]
    /\ UNCHANGED <<read_task, internal_receiver, env>>
    /\ UNCHANGED openFields
    /\ UNCHANGED waitingFrame

\* register_receiver returns the receiver's identifier.
WaitingRegistered ==
    /\ st = "WAITING_CONFIGURE"
    /\ handler.pc = "register"
    /\ internal_receiver' = internal_receiver \cup {ReceiverId}
    /\ handler' = [pc |-> "build", receiver_id |-> ReceiverId]
    /\ UNCHANGED <<st, read_task, env>>
    /\ UNCHANGED openFields
    /\ UNCHANGED waitingFrame

\* compressor_training_info of the StateOpen the handler returns.
WaitingTrainingInfo(message) ==
    IF ~broadcaster_config.allow_training \/ ~message.enable_training
    THEN None
    ELSE _CompressorTrainingInfo("BEFORE_LOW_WATERMARK", 0, FALSE, 0)

\* The try block: it returns StateOpen, or an exception takes the handler to
\* the await of unregister_receiver.  The list compressors is held in the
\* slots of the session: identifier 1 in standard_compressor, the preset in
\* active_compressor.
WaitingBuild ==
    /\ st = "WAITING_CONFIGURE"
    /\ handler.pc = "build"
    /\ LET message == read_task.message
           compresses == /\ broadcaster_config.compression_allowed
                         /\ message.enable_zstd
       IN  \E built \in BOOLEAN :
             IF built
             THEN /\ st' = "OPEN"
                  /\ handler' = [handler EXCEPT !.pc = "returned"]
                  /\ socket_level_config' =
                         ConnectionConfiguration(
                             message.enable_zstd,
                             message.enable_zstd /\ message.enable_training)
                  /\ standard_compressor' =
                         IF compresses THEN _CompressorPreparing(1, "running")
                         ELSE NoCompressor
                  /\ active_compressor' =
                         IF compresses /\ message.initial_dict > 1
                         THEN _CompressorPreparing(message.initial_dict,
                                                   "running")
                         ELSE NoCompressor
                  /\ training_data' = WaitingTrainingInfo(message)
                  /\ broadcaster_counter' = 1
                  /\ subscriber_counter' = -1
                  /\ read_task' = ReadPending
                  /\ send_task' =
                         SendTask("formatted",
                                  _FormattedMessage(
                                      SimpleFrame("CONFIRM_CONFIGURE", <<>>, 0,
                                                  "")))
                  /\ process_task' = NoProcess
                  /\ client_session' = [closes |-> 0]
             ELSE /\ handler' = [handler EXCEPT !.pc = "unregister"]
                  /\ UNCHANGED <<st, read_task>>
                  /\ UNCHANGED openFields
    /\ UNCHANGED <<internal_receiver, env>>
    /\ UNCHANGED waitingFrame

\* An except branch that raises again and leaves the receiver registered.
WaitingRaisesRegistered ==
    /\ st = "WAITING_CONFIGURE"
    /\ handler.pc = "unregister"
    /\ handler' = [handler EXCEPT !.pc = "raised"]
    /\ UNCHANGED <<st, read_task, env, internal_receiver>>
    /\ UNCHANGED openFields
    /\ UNCHANGED waitingFrame

\* except BaseException: unregister_receiver returns and the exception is
\* raised again.
WaitingUnregistered ==
    /\ st = "WAITING_CONFIGURE"
    /\ handler.pc = "unregister"
    /\ internal_receiver' = internal_receiver \ {handler.receiver_id}
    /\ handler' = [handler EXCEPT !.pc = "raised"]
    /\ UNCHANGED <<st, read_task, env>>
    /\ UNCHANGED openFields
    /\ UNCHANGED waitingFrame

\* The refactored session as the accept leaves it: StateWaitingConfigure has
\* a websocket, the configuration, the hub's registry and a read task.
InitWaiting ==
    /\ st = "WAITING_CONFIGURE"
    /\ arch = "modular"
    /\ broadcaster_config \in
           {[Config(0, TRUE) EXCEPT !.allow_training = a,
                                    !.compression_allowed = c] :
                a \in BOOLEAN, c \in BOOLEAN}
    /\ handler = Handler("read")
    /\ message_task = MessageTask(FALSE)
    /\ internal_receiver = {}
    /\ read_task = ReadPending
    /\ socket_level_config = None
    /\ standard_compressor = NoCompressor
    /\ active_compressor = NoCompressor
    /\ last_compressor = NoCompressor
    /\ training_data = None
    /\ broadcaster_counter = 1
    /\ subscriber_counter = -1
    /\ send_task = NoTask
    /\ process_task = NoProcess
    /\ client_session = [closes |-> 0]
    /\ exact_subscriptions = {}
    /\ glob_subscriptions = <<>>
    /\ queue = <<>>
    /\ pending_sends = <<>>
    /\ unprocessed_receives = <<>>
    /\ expecting_acks = <<>>
    /\ incoming_notification = NoNotification
    /\ custom_compression_dict_counter = FirstCustomId
    /\ backgrounded = {}
    /\ exception = FALSE
    /\ hub = [k \in Keys |-> [inc |-> 0, dec |-> 0]]
    /\ finished = {}
    /\ sent = <<>>
    /\ ack_log = <<>>
    /\ delivered = <<>>
    /\ trace = [tick |-> 0, op |-> "none", message |-> NoInFrame, ok |-> TRUE]
    /\ env = Env(FALSE)
    /\ wire = NoWire

NextWaiting ==
    \/ WaitingPeerSends \/ WaitingRead \/ WaitingRegistered \/ WaitingBuild
    \/ WaitingUnregistered

SpecWaiting == InitWaiting /\ [][NextWaiting]_vars


(***************************************************************************)
(* Properties.                                                             *)
(***************************************************************************)

SelectIdentifier(log, message_id) ==
    SelectSeq(log, LAMBDA x : x.identifier = message_id)

PartsSent(message_id) ==
    SelectSeq(sent, LAMBDA f : f.type = "RECEIVE_STREAM"
                               /\ f.identifier = message_id)

\* C1: a notification sent as N >= 1 RECEIVE_STREAM frames has put on
\* expecting_acks exactly ContinueReceive for the parts 0..N-2, in order, and
\* then one ConfirmReceive, whichever send path carried it.
C1_AcksFollowParts ==
    (send_task # NoTask /\ send_task.pc = "done" /\ send_task.msg.type # "FORMATTED")
    => LET message_id == MsgIdentifier(send_task.msg)
           N == Len(PartsSent(message_id))
           acks == SelectIdentifier(ack_log, message_id)
       IN  N >= 1 =>
             /\ Len(acks) = N
             /\ \A i \in 1..(N - 1) : acks[i] = _ContinueReceive(message_id, i - 1)
             /\ acks[N] = _ConfirmReceive(message_id)

\* C2: an ack frame removes exactly one entry, the head, from expecting_acks
\* (none when there is none); the session stays Open only if that entry has
\* the frame's kind and identifier and, for CONTINUE_RECEIVE, its part_id;
\* otherwise the session becomes Closing.
C2_AckConsumesHead ==
    [][(trace'.tick # trace.tick /\ trace'.op = "ack")
       => LET m == trace'.message
              matches ==
                  /\ expecting_acks # <<>>
                  /\ Head(expecting_acks).type = m.type
                  /\ Head(expecting_acks).identifier = m.identifier
                  /\ m.type = "CONTINUE_RECEIVE"
                         => Head(expecting_acks).part_id = m.part_id
          IN  /\ expecting_acks # <<>> => expecting_acks' = Tail(expecting_acks)
              /\ expecting_acks = <<>> => expecting_acks' = <<>>
              /\ matches => st' = "OPEN"
              /\ ~matches => st' = "CLOSING" /\ exception']_vars

\* An ack frame was accepted against an expectation the session had queued.
C2_Witness ==
    /\ trace.op = "ack"
    /\ trace.ok
    /\ st = "OPEN"
    /\ \E i \in 1..Len(ack_log) :
         /\ ack_log[i].type = trace.message.type
         /\ ack_log[i].identifier = trace.message.identifier

Enqueued(frame) ==
    \/ frame \in SeqToSet(sent)
    \/ send_task.msg.websocket_data = frame
    \/ \E i \in 1..Len(pending_sends) : pending_sends[i].websocket_data = frame

\* C3: CONFIRM_SUBSCRIBE_EXACT(t) is enqueued before t is inserted into
\* exact_subscriptions and before the hub's counter of t is incremented.
C3_ConfirmBeforeRegistering ==
    \A t \in Topics :
        (t \in exact_subscriptions \/ hub[t].inc > 0)
        => Enqueued(ConfirmFrame(Control("SUBSCRIBE_EXACT", t)))

\* The part carried by process_task continues the open stream in order and
\* brings its body to x-compressed-length with the announced hash.
InOrderFinalPart ==
    LET m == process_task.message
        notif == incoming_notification
    IN  /\ process_task.pc = "created"
        /\ m.type = "NOTIFY_STREAM"
        /\ notif # NoNotification
        /\ m.identifier = notif.identifier
        /\ m.part_id = notif.prev_part_id + 1
        /\ notif.compressor_id = 0
        /\ notif.decompressed_length = notif.compressed_length
        /\ Len(notif.body \o m.body) = notif.compressed_length
        /\ Sha512(notif.body \o m.body) = notif.compressed_sha512

\* C4: the parts 0..k of a stream, in order and with the right length and
\* hash, are accepted: the part that completes the body is handed to the
\* fanout and the processor does not raise.
C4_InOrderPartsAccepted ==
    [][(InOrderFinalPart /\ process_task'.pc # "created")
       => /\ process_task'.pc = "at_fanout"
          /\ Len(delivered') = Len(delivered) + 1]_vars

\* The part carried by process_task is one the protocol refuses: out of
\* order for the open stream, a later part with no stream open, a part 0
\* while a stream is open, or a part of another identifier.
RefusedPart ==
    LET m == process_task.message
        notif == incoming_notification
    IN  /\ process_task.pc = "created"
        /\ m.type = "NOTIFY_STREAM"
        /\ \/ notif # NoNotification /\ m.part_id # notif.prev_part_id + 1
           \/ notif = NoNotification /\ m.part_id > 0
           \/ notif # NoNotification /\ m.part_id = 0
           \/ notif # NoNotification /\ m.identifier # notif.identifier

\* C5: a NOTIFY_STREAM part that is out of order, that continues no open
\* stream, that restarts an open stream or that names another identifier is
\* refused: the processor raises without a delivery and without queuing
\* CONTINUE_NOTIFY or CONFIRM_NOTIFY, and a processor that raised is only
\* ever followed by the session becoming Closing with the error.
C5_BadPartRefused ==
    [][/\ (RefusedPart /\ process_task' # process_task)
          => /\ process_task'.pc = "failed"
             /\ delivered' = delivered
             /\ send_task' = send_task
             /\ pending_sends' = pending_sends
       /\ (process_task.pc = "failed" /\ st = "OPEN")
          => /\ process_task' = process_task
             /\ delivered' = delivered
             /\ st' # st => st' = "CLOSING" /\ exception']_vars

\* A part of another identifier arrived while a stream was open, and the
\* session closed on the error.
C5_Witness ==
    /\ st = "CLOSING"
    /\ exception
    /\ process_task.pc = "failed"
    /\ process_task.message.type = "NOTIFY_STREAM"
    /\ incoming_notification # NoNotification
    /\ process_task.message.identifier # incoming_notification.identifier

AllEnqueued ==
    SeqToSet(sent) \cup {send_task.msg.websocket_data}
    \cup {pending_sends[i].websocket_data : i \in 1..Len(pending_sends)}

\* C6: a payload reaches the fanout, and CONFIRM_NOTIFY is queued, only for
\* a body whose length is x-compressed-length and whose SHA-512 is
\* x-compressed-sha512; a processor that found a mismatch has raised.
C6_IntegrityBeforeFanout ==
    /\ \A i \in 1..Len(delivered) :
         /\ Len(delivered[i].body) = delivered[i].compressed_length
         /\ Sha512(delivered[i].body) = delivered[i].sha512
    /\ \A f \in AllEnqueued :
         f.type = "CONFIRM_NOTIFY"
         => \E i \in 1..Len(delivered) : delivered[i].identifier = f.identifier
    /\ LET m == process_task.message
       IN  /\ (m.type = "NOTIFY" /\ process_task.pc \in {"at_comp", "at_fanout", "done"})
              => Len(m.body) = m.compressed_length /\ Sha512(m.body) = m.sha512
           /\ (m.type = "NOTIFY_STREAM" /\ process_task.pc \in {"at_comp", "at_fanout"})
              => /\ Len(incoming_notification.body)
                        = incoming_notification.compressed_length
                 /\ Sha512(incoming_notification.body)
                        = incoming_notification.compressed_sha512

\* One NOTIFY was delivered and confirmed, and the processor of a later
\* NOTIFY whose body does not match its headers has raised.
C6_Witness ==
    /\ \E i \in 1..Len(sent) : sent[i].type = "CONFIRM_NOTIFY"
    /\ \E i \in 1..Len(delivered) : delivered[i].kind = "NOTIFY"
    /\ process_task.pc = "failed"
    /\ process_task.message.type = "NOTIFY"
    /\ \/ Len(process_task.message.body) # process_task.message.compressed_length
       \/ Sha512(process_task.message.body) # process_task.message.sha512

\* C7: every payload handed to the fanout was preceded by is_notify_allowed
\* answering ok for its notification.
C7_DeliveredWasAuthorized ==
    \A i \in 1..Len(delivered) : delivered[i].verified

\* C8: every payload handed to the fanout has exactly x-decompressed-length
\* bytes, for NOTIFY and for NOTIFY_STREAM.
C8_DeliveredLength ==
    \A i \in 1..Len(delivered) :
        delivered[i].payload_len = delivered[i].decompressed_length

\* C9: no frame of any other type is sent before CONFIRM_CONFIGURE.
C9_ConfirmConfigureFirst ==
    \A i \in 1..Len(sent) :
        sent[i].type # "CONFIRM_CONFIGURE"
        => \E j \in 1..(i - 1) : sent[j].type = "CONFIRM_CONFIGURE"

\* q2 is q with items added at the end, or q without its head, which taken is.
KeptOrTaken(q, q2, taken) ==
    \/ Len(q2) >= Len(q) /\ SubSeq(q2, 1, Len(q)) = q
    \/ q # <<>> /\ q2 = Tail(q) /\ taken = Head(q)

\* C10: an item leaves pending_sends only by being sent and
\* unprocessed_receives only by being processed; no item is discarded to make
\* room for another.
C10_NothingDiscarded ==
    [][/\ KeptOrTaken(pending_sends, pending_sends', send_task'.msg)
       /\ KeptOrTaken(unprocessed_receives, unprocessed_receives',
                      process_task'.message)]_vars

\* C11: once the session has left Open, the hub has seen as many decrements
\* as increments from it, for every exact topic and every glob.
C11_TeardownBalancesHub ==
    st # "ACCEPTING" /\ st # "OPEN"
    => \A k \in Keys : hub[k].dec = hub[k].inc

\* C12: once the transport has disconnected, the session eventually is
\* Closed, or has closed the transport and re-raised its error.
C12_DisconnectTerminates ==
    env.disconnected ~> st \in {"CLOSED", "RAISED"}

\* C13: a notification the hub queued after CONFIRM_SUBSCRIBE_EXACT of its
\* topic was sent, and whose send task has run to its end, was sent as
\* RECEIVE_STREAM frames that start with part_id 0.
C13_SubscribedIsSent ==
    (/\ send_task.pc = "done"
     /\ send_task.msg.type \in {"SMALL", "LARGE", "LARGE_SPOOLED"}
     /\ send_task.msg.confirmed)
    => \E i \in 1..Len(sent) :
          /\ sent[i].type = "RECEIVE_STREAM"
          /\ sent[i].identifier = MsgIdentifier(send_task.msg)
          /\ sent[i].part_id = 0

\* C14: a Large item taken from the hub's queue has its finished signal set
\* once its send task has ended, whether it returned or raised, and once the
\* session has left Open.
C14_LargeIsReleased ==
    (/\ send_task.msg.type = "LARGE"
     /\ TaskDone(send_task) \/ st # "OPEN")
    => send_task.msg.n \in finished

\* C15: whenever no send is in progress, broadcaster_counter - 1 is the
\* number of RECEIVE_STREAM frames handed to the transport.
C15_CounterCountsFrames ==
    (st = "OPEN" /\ (send_task = NoTask \/ send_task.pc = "done"))
    => broadcaster_counter - 1
           = Len(SelectSeq(sent, LAMBDA f : f.type = "RECEIVE_STREAM"))

\* C16: the step in which a processor calls the verifier for a SUBSCRIBE_*,
\* UNSUBSCRIBE_* or NOTIFY frame takes subscriber_counter down by exactly 1,
\* and no other step changes it.
C16_ReceiveUrlPerVerification ==
    [][IF /\ process_task.pc = "created"
          /\ process_task'.pc = "at_auth"
          /\ (IsSubscription(process_task.message)
              \/ process_task.message.type = "NOTIFY")
       THEN subscriber_counter' = subscriber_counter - 1
       ELSE subscriber_counter' = subscriber_counter]_vars

\* C17: broadcaster_counter is at least 1 and never decreases,
\* subscriber_counter is at most -1 and never increases, and every step that
\* mints a URL (a send task reaching setup_authorization, a subscribe
\* processor reaching its verifier) moves its counter, so that no two URLs of
\* one direction carry the same value.
C17_CountersMonotonic ==
    /\ [](broadcaster_counter >= 1 /\ subscriber_counter <= -1)
    /\ [][/\ broadcaster_counter' >= broadcaster_counter
          /\ subscriber_counter' <= subscriber_counter
          /\ (send_task'.pc = "at_auth" /\ send_task' # send_task)
             => broadcaster_counter' > broadcaster_counter
          /\ (/\ process_task'.pc = "at_auth" /\ process_task.pc = "created"
              /\ IsSubscription(process_task.message))
             => subscriber_counter' < subscriber_counter]_vars

\* A second send URL and a second receive URL were minted.
C17_Witness ==
    /\ broadcaster_counter >= 3
    /\ subscriber_counter <= -3

\* The send task, or the sender task of the direct path, is suspended in
\* expecting_acks.put on a queue that holds as many entries as it may.
BlockedAtPut ==
    /\ send_task.pc = "at_put" \/ send_task.sender = "at_put"
    /\ broadcaster_config.websocket_send_max_unacknowledged > 0
    /\ Len(expecting_acks) = broadcaster_config.websocket_send_max_unacknowledged

\* C18: with websocket_send_max_unacknowledged = K > 0, expecting_acks never
\* holds more than K entries, and a sender suspended in put on a queue of K
\* entries sends no frame until an entry has been popped; with the setting
\* absent (maxsize 0) no sender is ever suspended in put by _expect_ack_and_send.
C18_AcksBounded ==
    /\ [](\/ broadcaster_config.websocket_send_max_unacknowledged = 0
          \/ Len(expecting_acks) <= broadcaster_config.websocket_send_max_unacknowledged)
    /\ [](broadcaster_config.websocket_send_max_unacknowledged = 0
          => send_task.pc # "at_put")
    /\ [][BlockedAtPut => sent' = sent]_vars

\* A sender is suspended in put behind one unacknowledged part.
C18_Witness ==
    /\ st = "OPEN"
    /\ BlockedAtPut
    /\ send_task.pc = "at_put"

\* The announcements of a dictionary that are queued, about to be sent or sent.
Announcements(id) ==
    LET IsEnable(f) == /\ f.type \in {"ENABLE_ZSTD_PRESET", "ENABLE_ZSTD_CUSTOM"}
                       /\ f.identifier = <<id>>
        Queued(m) == IsEnable(m.websocket_data)
    IN  Len(SelectSeq(pending_sends, Queued)) + Len(SelectSeq(sent, IsEnable))
        + (IF /\ send_task.path = "formatted" /\ send_task.pc = "created"
              /\ IsEnable(send_task.msg.websocket_data)
           THEN 1 ELSE 0)

\* The compressor of a slot goes from Preparing to Ready in this step.
BecomesReady(slot) ==
    /\ CompressorIn(slot).type = "PREPARING"
    /\ CompressorIn(slot)'.type = "READY"
    /\ CompressorIn(slot)'.dictionary_id = CompressorIn(slot).dictionary_id

\* C19: a step in which the compressor of a slot (standard, active or last)
\* becomes Ready adds exactly one ENABLE_ZSTD_PRESET or ENABLE_ZSTD_CUSTOM
\* frame of its dictionary to what the session sends when its ID is above 1,
\* the type chosen by ID < 65536, and adds none when its ID is 1.
C19_ReadyIsAnnounced ==
    [][\A slot \in {"standard", "active", "last"} :
         BecomesReady(slot) =>
             LET id == CompressorIn(slot).dictionary_id
             IN  Announcements(id)' =
                     Announcements(id) + (IF id > 1 THEN 1 ELSE 0)]_vars

\* The verifier refused the SUBSCRIBE_* or UNSUBSCRIBE_* frame in process_task.
RefusedByVerifier ==
    /\ IsSubscription(process_task.message)
    /\ process_task.auth_result \in AuthResults \ {"ok"}

\* How often a frame waits in pending_sends or in a send task not yet run.
QueuedCopies(pending, task, frame) ==
    Len(SelectSeq(pending, LAMBDA m : m.websocket_data = frame))
    + (IF /\ task.path = "formatted" /\ task.pc = "created"
          /\ task.msg.websocket_data = frame
       THEN 1 ELSE 0)

\* C20: once the verifier has answered unauthorized, forbidden or unavailable
\* to a SUBSCRIBE_* or UNSUBSCRIBE_* frame, no step of the Open session
\* changes exact_subscriptions or glob_subscriptions, calls the hub, or
\* enqueues that frame's CONFIRM; the refused processor stays in its slot
\* until the session leaves Open, which it does, and only to Closing.
C20_RefusalClosesUnchanged ==
    /\ [][(RefusedByVerifier' /\ st = "OPEN") =>
            /\ exact_subscriptions' = exact_subscriptions
            /\ glob_subscriptions' = glob_subscriptions
            /\ st' \in {"OPEN", "CLOSING"}
            /\ st' = "OPEN" => hub' = hub
            /\ RefusedByVerifier /\ st' = "OPEN" => process_task' = process_task
            /\ LET confirm == ConfirmFrame(process_task'.message)
               IN  QueuedCopies(pending_sends', send_task', confirm)
                       <= QueuedCopies(pending_sends, send_task, confirm)]_vars
    /\ [][RefusedByVerifier /\ st = "OPEN" => RefusedByVerifier']_vars
    /\ RefusedByVerifier ~> st \in {"CLOSING", "CLOSED", "RAISED"}

\* A refused subscription has taken the session to Closing with an exception.
C20_Witness ==
    /\ RefusedByVerifier
    /\ st = "CLOSING"
    /\ exception

\* The fanout answered UNAVAILABLE to the NOTIFY or NOTIFY_STREAM in process_task.
FanoutUnavailable ==
    /\ process_task.message.type \in {"NOTIFY", "NOTIFY_STREAM"}
    /\ process_task.notify_result.type = "UNAVAILABLE"

\* The CONFIRM_NOTIFY frames that wait in pending_sends or in a send task not
\* yet run.
QueuedConfirmNotify(pending, task) ==
    {pending[i].websocket_data : i \in 1..Len(pending)}
    \cup (IF task.path = "formatted" /\ task.pc = "created"
          THEN {task.msg.websocket_data} ELSE {})

\* C21: once the fanout has answered UNAVAILABLE no CONFIRM_NOTIFY of the
\* identifier is enqueued, the failed processor stays in its slot until the
\* session leaves Open, and the session reaches Closing; a CONFIRM_NOTIFY is
\* enqueued only by the step in which the fanout answers OK, for the
\* identifier of the frame processed, with x-subscribers decoding to succeeded.
C21_ConfirmNotifyOnlyAfterOk ==
    /\ [][(FanoutUnavailable' /\ st = "OPEN") =>
            /\ st' \in {"OPEN", "CLOSING"}
            /\ FanoutUnavailable /\ st' = "OPEN" => process_task' = process_task
            /\ \A f \in QueuedConfirmNotify(pending_sends', send_task') :
                 (f.type = "CONFIRM_NOTIFY"
                  /\ f.identifier = process_task'.message.identifier)
                 => QueuedCopies(pending_sends', send_task', f)
                        <= QueuedCopies(pending_sends, send_task, f)]_vars
    /\ [][FanoutUnavailable /\ st = "OPEN" => FanoutUnavailable']_vars
    /\ [][\A f \in QueuedConfirmNotify(pending_sends', send_task') :
            (f.type = "CONFIRM_NOTIFY"
             /\ QueuedCopies(pending_sends', send_task', f)
                    > QueuedCopies(pending_sends, send_task, f))
            => /\ process_task.pc = "at_fanout"
               /\ process_task'.notify_result.type = "OK"
               /\ f.identifier = process_task.message.identifier
               /\ FromBytes(f.subscribers)
                      = process_task'.notify_result.succeeded]_vars
    /\ FanoutUnavailable ~> st \in {"CLOSING", "CLOSED", "RAISED"}

\* A notification was confirmed with one subscriber reached, and a later
\* UNAVAILABLE answer has taken the session to Closing.
C21_Witness ==
    /\ FanoutUnavailable
    /\ st = "CLOSING"
    /\ exception
    /\ \E i \in 1..Len(sent) :
         sent[i].type = "CONFIRM_NOTIFY" /\ sent[i].subscribers = <<1>>

\* name.encode("ascii") of every header name the session writes or expects.
Ascii ==
    "authorization" :> <<97, 117, 116, 104, 111, 114, 105, 122, 97, 116, 105,
         111, 110>>
    @@ "x-subscriber-nonce" :> <<120, 45, 115, 117, 98, 115, 99, 114, 105,
         98, 101, 114, 45, 110, 111, 110, 99, 101>>
    @@ "x-enable-zstd" :> <<120, 45, 101, 110, 97, 98, 108, 101, 45, 122,
         115, 116, 100>>
    @@ "x-enable-training" :> <<120, 45, 101, 110, 97, 98, 108, 101, 45, 116,
         114, 97, 105, 110, 105, 110, 103>>
    @@ "x-initial-dict" :> <<120, 45, 105, 110, 105, 116, 105, 97, 108, 45,
         100, 105, 99, 116>>
    @@ "x-topic" :> <<120, 45, 116, 111, 112, 105, 99>>
    @@ "x-glob" :> <<120, 45, 103, 108, 111, 98>>
    @@ "x-identifier" :> <<120, 45, 105, 100, 101, 110, 116, 105, 102, 105,
         101, 114>>
    @@ "x-part-id" :> <<120, 45, 112, 97, 114, 116, 45, 105, 100>>
    @@ "x-compressor" :> <<120, 45, 99, 111, 109, 112, 114, 101, 115, 115,
         111, 114>>
    @@ "x-compressed-length" :> <<120, 45, 99, 111, 109, 112, 114, 101, 115,
         115, 101, 100, 45, 108, 101, 110, 103, 116, 104>>
    @@ "x-decompressed-length" :> <<120, 45, 100, 101, 99, 111, 109, 112,
         114, 101, 115, 115, 101, 100, 45, 108, 101, 110, 103, 116, 104>>
    @@ "x-compressed-sha512" :> <<120, 45, 99, 111, 109, 112, 114, 101, 115,
         115, 101, 100, 45, 115, 104, 97, 53, 49, 50>>
    @@ "x-broadcaster-nonce" :> <<120, 45, 98, 114, 111, 97, 100, 99, 97,
         115, 116, 101, 114, 45, 110, 111, 110, 99, 101>>
    @@ "x-subscribers" :> <<120, 45, 115, 117, 98, 115, 99, 114, 105, 98,
         101, 114, 115>>
    @@ "x-compression-level" :> <<120, 45, 99, 111, 109, 112, 114, 101, 115,
         115, 105, 111, 110, 45, 108, 101, 118, 101, 108>>
    @@ "x-min-size" :> <<120, 45, 109, 105, 110, 45, 115, 105, 122, 101>>
    @@ "x-max-size" :> <<120, 45, 109, 97, 120, 45, 115, 105, 122, 101>>

\* int.to_bytes(2, "big").
U16(n) == ToBytes(n, 2)

\* str.lower() on one ASCII code.
Lower(c) == IF c \in 65..90 THEN c + 32 ELSE c

\* name_enc.decode("ascii").lower(), as the header name it spells.
DecodeLower(name_enc) ==
    LET lowered == [i \in 1..Len(name_enc) |-> Lower(name_enc[i])]
    IN  IF \E n \in DOMAIN Ascii : Ascii[n] = lowered
        THEN CHOOSE n \in DOMAIN Ascii : Ascii[n] = lowered
        ELSE "?"

\* The values of auto() in _ParsedWSMessageType and _OutgoingParsedWSMessageType.
_ParsedWSMessageType ==
    <<"CONFIGURE", "SUBSCRIBE_EXACT", "SUBSCRIBE_GLOB", "UNSUBSCRIBE_EXACT",
      "UNSUBSCRIBE_GLOB", "NOTIFY", "NOTIFY_STREAM", "CONTINUE_RECEIVE",
      "CONFIRM_RECEIVE">>

_OutgoingParsedWSMessageType ==
    <<"CONFIRM_CONFIGURE", "CONFIRM_SUBSCRIBE_EXACT", "CONFIRM_SUBSCRIBE_GLOB",
      "CONFIRM_UNSUBSCRIBE_EXACT", "CONFIRM_UNSUBSCRIBE_GLOB", "CONFIRM_NOTIFY",
      "CONTINUE_NOTIFY", "RECEIVE_STREAM", "ENABLE_ZSTD_PRESET",
      "ENABLE_ZSTD_CUSTOM">>

\* The number of the message type with this name in the enumeration.
TypeNumber(enumeration, name) ==
    CHOOSE i \in 1..Len(enumeration) : enumeration[i] = name

_STANDARD_MINIMAL_HEADERS_BY_TYPE ==
    "CONFIGURE" :> <<"x-subscriber-nonce", "x-enable-zstd", "x-enable-training",
                     "x-initial-dict">>
    @@ "SUBSCRIBE_EXACT" :> <<"authorization", "x-topic">>
    @@ "SUBSCRIBE_GLOB" :> <<"authorization", "x-glob">>
    @@ "UNSUBSCRIBE_EXACT" :> <<"authorization", "x-topic">>
    @@ "UNSUBSCRIBE_GLOB" :> <<"authorization", "x-glob">>
    @@ "NOTIFY" :> <<"authorization", "x-identifier", "x-topic", "x-compressor",
                     "x-compressed-length", "x-decompressed-length",
                     "x-compressed-sha512">>
    @@ "CONTINUE_RECEIVE" :> <<"x-part-id", "x-identifier">>
    @@ "CONFIRM_RECEIVE" :> <<"x-identifier">>

\* The headers of NOTIFY_STREAM and RECEIVE_STREAM: three for every part, five
\* more for part 0.
StreamHead == <<"authorization", "x-identifier", "x-part-id">>

StreamFirst ==
    <<"x-topic", "x-compressor", "x-compressed-length", "x-decompressed-length",
      "x-compressed-sha512">>

RECURSIVE WriteMinimal(_)
WriteMinimal(headers) ==
    IF headers = <<>> THEN <<>>
    ELSE U16(Len(Head(headers).value)) \o Head(headers).value
             \o WriteMinimal(Tail(headers))

RECURSIVE WriteExpanded(_)
WriteExpanded(headers) ==
    IF headers = <<>> THEN <<>>
    ELSE U16(Len(Ascii[Head(headers).name])) \o Ascii[Head(headers).name]
             \o U16(Len(Head(headers).value)) \o Head(headers).value
             \o WriteExpanded(Tail(headers))

\* The bytes of a frame; message_type is the number of the type.
_make_websocket_message(flags, message_type, headers, body) ==
    U16(flags) \o U16(message_type)
        \o (IF flags % 2 = 1 THEN WriteMinimal(headers)
            ELSE U16(Len(headers)) \o WriteExpanded(headers))
        \o body

\* What the parser gives when read_exact finds too few bytes or a value is
\* not accepted.
ParseRaises == [ok |-> FALSE]

\* headers[name] = value on a dict that keeps insertion order.
SetHeader(headers, name, value) ==
    IF \E i \in 1..Len(headers) : headers[i].name = name
    THEN [i \in 1..Len(headers) |->
             IF headers[i].name = name THEN [name |-> name, value |-> value]
             ELSE headers[i]]
    ELSE Append(headers, [name |-> name, value |-> value])

\* read_exact(stream, n): the first n bytes and what follows them.
read_exact(stream, n) ==
    IF Len(stream) < n THEN ParseRaises
    ELSE [ok |-> TRUE, value |-> SubSeq(stream, 1, n),
          rest |-> SubSeq(stream, n + 1, Len(stream))]

\* A two-byte length and that many bytes.
ReadValue(stream) ==
    LET length == read_exact(stream, 2)
    IN  IF ~length.ok THEN ParseRaises
        ELSE read_exact(length.rest, FromBytes(length.value))

\* for header in minimal_headers: one value each, in order.
RECURSIVE ReadMinimal(_, _, _)
ReadMinimal(minimal_headers, headers, stream) ==
    IF minimal_headers = <<>>
    THEN [ok |-> TRUE, headers |-> headers, rest |-> stream]
    ELSE LET value == ReadValue(stream)
         IN  IF ~value.ok THEN ParseRaises
             ELSE ReadMinimal(Tail(minimal_headers),
                              SetHeader(headers, Head(minimal_headers),
                                        value.value),
                              value.rest)

\* for _ in range(num_headers): a name and a value each.
RECURSIVE ReadExpanded(_, _, _)
ReadExpanded(num_headers, headers, stream) ==
    IF num_headers = 0
    THEN [ok |-> TRUE, headers |-> headers, rest |-> stream]
    ELSE LET name_enc == ReadValue(stream)
             value == IF name_enc.ok THEN ReadValue(name_enc.rest)
                      ELSE ParseRaises
         IN  IF ~value.ok THEN ParseRaises
             ELSE ReadExpanded(num_headers - 1,
                               SetHeader(headers, DecodeLower(name_enc.value),
                                         value.value),
                               value.rest)

\* The first three headers of a minimal NOTIFY_STREAM, then those that the
\* part id selects.
ReadMinimalStream(stream) ==
    LET authorization == ReadValue(stream)
        identifier == IF authorization.ok THEN ReadValue(authorization.rest)
                      ELSE ParseRaises
        part_id_bytes == IF identifier.ok THEN ReadValue(identifier.rest)
                         ELSE ParseRaises
    IN  IF ~part_id_bytes.ok THEN ParseRaises
        ELSE IF Len(identifier.value) > 64 \/ Len(part_id_bytes.value) > 8
        THEN ParseRaises
        ELSE ReadMinimal(IF FromBytes(part_id_bytes.value) = 0
                         THEN StreamFirst ELSE <<"x-identifier">>,
                         <<[name |-> "authorization",
                            value |-> authorization.value],
                           [name |-> "x-identifier",
                            value |-> identifier.value],
                           [name |-> "x-part-id",
                            value |-> part_id_bytes.value]>>,
                         part_id_bytes.rest)

_parse_websocket_message(body) ==
    LET flags == read_exact(body, 2)
        message_type == IF flags.ok THEN read_exact(flags.rest, 2)
                        ELSE ParseRaises
    IN  IF ~message_type.ok THEN ParseRaises
        ELSE IF FromBytes(message_type.value)
                    \notin 1..Len(_ParsedWSMessageType)
        THEN ParseRaises
        ELSE LET type == _ParsedWSMessageType[FromBytes(message_type.value)]
                 stream == message_type.rest
                 num_headers == read_exact(stream, 2)
                 read ==
                     IF FromBytes(flags.value) % 2 = 1
                     THEN IF type = "NOTIFY_STREAM"
                          THEN ReadMinimalStream(stream)
                          ELSE ReadMinimal(
                                   _STANDARD_MINIMAL_HEADERS_BY_TYPE[type],
                                   <<>>, stream)
                     ELSE IF ~num_headers.ok THEN ParseRaises
                     ELSE ReadExpanded(FromBytes(num_headers.value), <<>>,
                                       num_headers.rest)
             IN  IF ~read.ok THEN ParseRaises
                 ELSE [ok |-> TRUE, flags |-> FromBytes(flags.value),
                       type |-> FromBytes(message_type.value),
                       headers |-> read.headers, body |-> read.rest]

\* The header lists the session passes to _make_websocket_message.
OutgoingHeaders ==
    "CONFIRM_CONFIGURE" :> <<"x-broadcaster-nonce">>
    @@ "CONFIRM_SUBSCRIBE_EXACT" :> <<"x-topic">>
    @@ "CONFIRM_SUBSCRIBE_GLOB" :> <<"x-glob">>
    @@ "CONFIRM_UNSUBSCRIBE_EXACT" :> <<"x-topic">>
    @@ "CONFIRM_UNSUBSCRIBE_GLOB" :> <<"x-glob">>
    @@ "CONFIRM_NOTIFY" :> <<"x-identifier", "x-subscribers">>
    @@ "CONTINUE_NOTIFY" :> <<"x-identifier", "x-part-id">>
    @@ "ENABLE_ZSTD_PRESET" :> <<"x-identifier", "x-compression-level",
                                 "x-min-size", "x-max-size">>
    @@ "ENABLE_ZSTD_CUSTOM" :> <<"x-identifier", "x-compression-level",
                                 "x-min-size", "x-max-size">>

\* The header names of a frame of this type and part, in the order of the
\* protocol.
HeaderNames(enumeration, type, part_id) ==
    IF type \in {"NOTIFY_STREAM", "RECEIVE_STREAM"}
    THEN StreamHead \o (IF part_id = 0 THEN StreamFirst ELSE <<>>)
    ELSE IF enumeration = _ParsedWSMessageType
    THEN _STANDARD_MINIMAL_HEADERS_BY_TYPE[type]
    ELSE OutgoingHeaders[type]

\* The part ids and the bodies of the frames taken through the codec.
CodecPartIds == {0, 1}

CodecBodies == {<<>>, <<0, 0>>, <<0, 1, 9>>}

\* A frame as the arguments of _make_websocket_message: x-part-id in as few
\* bytes as hold it, every other header a value of its own.
CodecFrame(flags, enumeration, type, part_id, body) ==
    LET names == HeaderNames(enumeration, type, part_id)
    IN  [flags |-> flags,
         type |-> TypeNumber(enumeration, type),
         headers |-> [i \in 1..Len(names) |->
                        [name |-> names[i],
                         value |-> IF names[i] = "x-part-id"
                                   THEN ToBytes(part_id,
                                            _smallest_unsigned_size(part_id))
                                   ELSE <<i, 7>>]],
         body |-> body]

\* Frames of every type the session sends.
OutgoingFrames ==
    {CodecFrame(flags, _OutgoingParsedWSMessageType,
                _OutgoingParsedWSMessageType[t], part_id, body) :
         flags \in {0, 1}, t \in 1..Len(_OutgoingParsedWSMessageType),
         part_id \in CodecPartIds, body \in CodecBodies}

\* Frames of every type the session receives.
IncomingFrames ==
    {CodecFrame(flags, _ParsedWSMessageType, _ParsedWSMessageType[t], part_id,
                body) :
         flags \in {0, 1}, t \in 1..Len(_ParsedWSMessageType),
         part_id \in CodecPartIds, body \in CodecBodies}

\* Every variable of the session.
session ==
    <<st, arch, broadcaster_config, socket_level_config, exact_subscriptions,
      glob_subscriptions, queue, read_task, send_task, process_task,
      pending_sends, unprocessed_receives, expecting_acks,
      incoming_notification, standard_compressor, active_compressor,
      last_compressor, broadcaster_counter, subscriber_counter, exception, client_session,
      hub, finished, sent, ack_log, delivered, trace, env, training_data,
      custom_compression_dict_counter, backgrounded, internal_receiver, handler, message_task>>

\* A frame about to be encoded, beside a session that has not started.
InitCodec ==
    /\ st = "ACCEPTING"
    /\ broadcaster_config = Config(1, TRUE)
    /\ socket_level_config = None
    /\ standard_compressor = NoCompressor
    /\ sent = <<>>
    /\ InitOpenFields
    /\ env = Env(FALSE)
    /\ \E frame \in OutgoingFrames \cup IncomingFrames :
         wire = [pc |-> "frame", frame |-> frame, data |-> <<>>,
                 parsed |-> ParseRaises]

\* _make_websocket_message on the frame.
MakeWebsocketMessage ==
    /\ wire.pc = "frame"
    /\ wire' = [wire EXCEPT
                  !.pc = "encoded",
                  !.data = _make_websocket_message(wire.frame.flags,
                               wire.frame.type, wire.frame.headers,
                               wire.frame.body)]
    /\ UNCHANGED session

\* _parse_websocket_message on the bytes.
ParseWebsocketMessage ==
    /\ wire.pc = "encoded"
    /\ LET parsed == _parse_websocket_message(wire.data)
       IN  wire' = [wire EXCEPT
                      !.pc = IF parsed.ok THEN "parsed" ELSE "raised",
                      !.parsed = parsed]
    /\ UNCHANGED session

NextCodec == MakeWebsocketMessage \/ ParseWebsocketMessage

SpecCodec == InitCodec /\ [][NextCodec]_vars

\* The values of a header list or of a parsed header dict, in order.
HeaderValues(headers) == [i \in 1..Len(headers) |-> headers[i].value]

\* The parser's answer is the frame that was encoded.
RoundTrips ==
    /\ wire.pc = "parsed"
    /\ wire.parsed.flags = wire.frame.flags
    /\ wire.parsed.type = wire.frame.type
    /\ HeaderValues(wire.parsed.headers) = HeaderValues(wire.frame.headers)
    /\ wire.parsed.body = wire.frame.body

\* C22: for every message type, in the expanded and in the minimal form, the
\* bytes _make_websocket_message produces are parsed by
\* _parse_websocket_message to the same flags, type, header values and body.
C22_RoundTrip == wire.pc \in {"parsed", "raised"} => RoundTrips

\* C23: every frame the transport delivers is handed to ack handling or to a
\* processor once: the read branch of _handle_open never runs more often than
\* frames have arrived, and a tick that consumes a frame and stays Open leaves
\* a read_task that is not the completed read it just consumed.
C23_FrameDispatchedOnce ==
    /\ [][env'.dispatches > env.dispatches => env.dispatches < env.frames]_vars
    /\ [][(env'.dispatches > env.dispatches /\ st' = "OPEN")
           => read_task' # read_task]_vars

\* C24: the step that takes an Open session to Closing runs the teardown
\* once, also when a collaborator raises in it: client_session.close() is
\* called once, no counter of the hub is decremented more than once by that
\* step, and none that the session does not hold.
C24_TeardownOnce ==
    [][(st = "OPEN" /\ st' = "CLOSING") =>
         /\ client_session'.closes = client_session.closes + 1
         /\ \A k \in Keys :
             /\ hub'[k].dec - hub[k].dec <= 1
             /\ hub'[k].inc = hub[k].inc
             /\ (k \notin exact_subscriptions
                 /\ k \notin SeqToSet(glob_subscriptions))
                => hub'[k] = hub[k]]_vars

\* C25: while the session is Open, also while a subscribe processor waits for
\* the hub and after one has failed, a topic is in exact_subscriptions exactly
\* when the hub counts an increment of this session for it that no decrement
\* has undone and CONFIRM_SUBSCRIBE_EXACT of the topic has been enqueued.
C25_SubscribedIffRegistered ==
    st = "OPEN" =>
        \A t \in Topics :
            t \in exact_subscriptions
            <=> /\ hub[t].inc > hub[t].dec
                /\ Enqueued(ConfirmFrame(Control("SUBSCRIBE_EXACT", t)))

\* The frame whose verification process_task awaits asks for what the session
\* already has: a subscription it holds, or the removal of one it does not.
Superfluous ==
    LET m == process_task.message
    IN  /\ process_task.pc = "at_auth"
        /\ \/ m.type = "SUBSCRIBE_EXACT" /\ m.target \in exact_subscriptions
           \/ m.type = "UNSUBSCRIBE_EXACT" /\ m.target \notin exact_subscriptions
           \/ m.type = "SUBSCRIBE_GLOB"
              /\ m.target \in SeqToSet(glob_subscriptions)
           \/ m.type = "UNSUBSCRIBE_GLOB"
              /\ m.target \notin SeqToSet(glob_subscriptions)

\* The processor of a SUBSCRIBE_* or UNSUBSCRIBE_* frame has raised although
\* the verifier answered ok.
RefusedAsHeld ==
    /\ IsSubscription(process_task.message)
    /\ process_task.auth_result = "ok"
    /\ process_task.pc = "failed"

\* C26: a SUBSCRIBE_* for a key the session holds and an UNSUBSCRIBE_* for a
\* key it does not hold make the processor raise without a call of the hub
\* and without a change of the subscriptions, and the session then reaches
\* Closing; while the session is Open, increments minus decrements of each
\* key's hub counter is 0 or 1.
C26_SuperfluousRefused ==
    /\ [](st = "OPEN" => \A k \in Keys : hub[k].inc - hub[k].dec \in {0, 1})
    /\ [][(st = "OPEN" /\ Superfluous /\ process_task' # process_task) =>
            /\ process_task'.pc = "failed"
            /\ ~process_task'.hub_applied
            /\ hub' = hub
            /\ exact_subscriptions' = exact_subscriptions
            /\ glob_subscriptions' = glob_subscriptions]_vars
    /\ [][(st = "OPEN" /\ RefusedAsHeld) =>
            /\ st' \in {"OPEN", "CLOSING"}
            /\ st' = "OPEN" => hub' = hub /\ process_task' = process_task]_vars
    /\ RefusedAsHeld ~> st \in {"CLOSING", "CLOSED", "RAISED"}

\* A second SUBSCRIBE_EXACT for a topic the hub counts once was refused, and
\* the session is Closing with the exception.
C26_Witness ==
    /\ RefusedAsHeld
    /\ process_task.message.type = "SUBSCRIBE_EXACT"
    /\ hub[process_task.message.target].inc = 1
    /\ st = "CLOSING"
    /\ exception

\* The RECEIVE_STREAM frames handed to the transport, in order.
Streamed == SelectSeq(sent, LAMBDA f : f.type = "RECEIVE_STREAM")

\* The expectation is the one of this frame: its identifier, and its part_id
\* where the expectation names one.
ExpectationOf(frame, ack) ==
    /\ ack.identifier = frame.identifier
    /\ ack.type = "CONTINUE_RECEIVE" => ack.part_id = frame.part_id

\* The expectations that acks have taken off expecting_acks.
Popped == Len(ack_log) - Len(expecting_acks)

\* C27: the k-th RECEIVE_STREAM frame is handed to the transport only after
\* the k-th expectation, which is the one of that frame, was put on
\* expecting_acks; expectations leave the queue from its head only, so when
\* the ack that answers a frame already sent is processed, the expectation of
\* that frame is the head of the queue.
C27_ExpectedBeforeSent ==
    /\ [](/\ Len(Streamed) <= Len(ack_log)
          /\ \A k \in 1..Len(Streamed) : ExpectationOf(Streamed[k], ack_log[k])
          /\ expecting_acks = SubSeq(ack_log, Popped + 1, Len(ack_log)))
    /\ [][Len(Streamed') > Len(Streamed) =>
            /\ Len(Streamed') = Len(Streamed) + 1
            /\ Len(ack_log) >= Len(Streamed')
            /\ ack_log' = ack_log]_vars
    /\ [][(trace'.tick # trace.tick /\ trace'.op = "ack"
           /\ Len(Streamed) > Popped) =>
            /\ expecting_acks # <<>>
            /\ ExpectationOf(Streamed[Popped + 1], Head(expecting_acks))]_vars

\* Two parts of a notification are on the wire, the ack of the first was
\* accepted and the expectation of the second waits.
C27_Witness ==
    /\ st = "OPEN"
    /\ Len(Streamed) = 2
    /\ Streamed[2].part_id = 1
    /\ Popped = 1
    /\ trace.op = "ack" /\ trace.ok
    /\ Len(expecting_acks) = 1

\* The item a frame handed to the transport belongs to is the one in the send
\* slot.
SentBySlot(frame) ==
    IF frame.type = "RECEIVE_STREAM"
    THEN /\ send_task.msg.type \in {"SMALL", "LARGE", "LARGE_SPOOLED"}
         /\ frame.identifier = MsgIdentifier(send_task.msg)
    ELSE /\ send_task.path = "formatted"
         /\ frame = send_task.msg.websocket_data

CompressorByLength ==
    LET length == send_task.msg.length
    IN  IF /\ length >= broadcaster_config.compression_trained_max_size
           /\ standard_compressor # NoCompressor
        THEN 1
        ELSE IF /\ length >= broadcaster_config.compression_min_size
                /\ length < broadcaster_config.compression_trained_max_size
                /\ IsReady(active_compressor)
        THEN active_compressor.dictionary_id
        ELSE 0

\* C29: when _send_small_message, _send_large_message_optimistically or
\* _send_large_message_from_spooled has chosen how to send the item, its
\* compressor is the one the rule selects for the item's length.
C29_CompressorByLength ==
    [][(/\ send_task # NoTask /\ send_task' # NoTask
        /\ send_task.path \in {"small", "spooled", "direct"}
        /\ send_task.pc = "created"
        /\ send_task'.pc \notin {"created", "failed"})
       => send_task'.compressor_id = CompressorByLength]_vars

\* A compressor other than the one that was active becomes the active one.
Installs == active_compressor'.dictionary_id # active_compressor.dictionary_id

\* The custom compressors of the session: those in the active and the last
\* slot, and those a task dropped from a slot is still preparing.
CustomHeld ==
    {c \in {active_compressor, last_compressor} : c.dictionary_id > 1}
        \cup {c \in backgrounded : c.dictionary_id > 1 /\ c.task = "running"}

\* C30: the step that installs a new custom compressor cancels the task of a
\* Preparing compressor in the last slot, puts the previous active compressor
\* in the last slot and the new one in the active slot; the session never has
\* more than two custom compressors.
C30_RotationKeepsTwo ==
    /\ [][(st = "OPEN" /\ Installs) =>
            /\ last_compressor' = active_compressor
            /\ active_compressor'.dictionary_id > 1
            /\ active_compressor' # last_compressor'
            /\ backgrounded' =
                   IF last_compressor.type = "PREPARING"
                   THEN backgrounded \cup {Cancel(last_compressor)}
                   ELSE backgrounded]_vars
    /\ [][(st = "OPEN" /\ ~Installs) => backgrounded' = backgrounded]_vars
    /\ [](\A c \in backgrounded : c.task # "running")
    /\ [](Cardinality(CustomHeld) <= 2)

\* A third custom compressor was installed while the first was still being
\* prepared in the last slot: its task is cancelled and two are held.
C30_Witness ==
    /\ st = "OPEN"
    /\ \E c \in backgrounded : c.task = "cancelled" /\ c.dictionary_id > 1
    /\ active_compressor.dictionary_id > 1
    /\ last_compressor.dictionary_id > 1
    /\ active_compressor.dictionary_id # last_compressor.dictionary_id

\* The compressors of the session trained on the session.
Trained ==
    {c \in {active_compressor, last_compressor} \cup backgrounded :
        c.dictionary_id >= FirstCustomId}

\* _check_training_data trains at the low watermark.
LowWatermarkFires ==
    /\ training_data # None /\ training_data' # None
    /\ training_data.type = "BEFORE_LOW_WATERMARK"
    /\ training_data'.type = "BEFORE_HIGH_WATERMARK"
    /\ ~training_data'.dirty

\* C31: every trained dictionary has the ID the counter had when its training
\* was spawned; the counter starts at 65536 and grows by one with each
\* training, so trained IDs are distinct and not below 65536; the training of
\* the low watermark is the first and leaves ID 65536 in the active slot.
C31_TrainedIdsFromCounter ==
    /\ [](custom_compression_dict_counter >= FirstCustomId)
    /\ [](\A c \in Trained : c.dictionary_id < custom_compression_dict_counter)
    /\ []((/\ active_compressor.dictionary_id >= FirstCustomId
            /\ last_compressor.dictionary_id >= FirstCustomId)
           => active_compressor.dictionary_id > last_compressor.dictionary_id)
    /\ [][custom_compression_dict_counter' # custom_compression_dict_counter =>
            /\ custom_compression_dict_counter' =
                   custom_compression_dict_counter + 1
            /\ active_compressor' =
                   _CompressorPreparing(custom_compression_dict_counter,
                                        "running")]_vars
    /\ [][(st = "OPEN" /\ socket_level_config # None /\ Installs) =>
            custom_compression_dict_counter' # custom_compression_dict_counter]_vars
    /\ [][LowWatermarkFires =>
            /\ active_compressor'.dictionary_id = FirstCustomId
            /\ custom_compression_dict_counter' = FirstCustomId + 1]_vars

\* Both watermarks have fired: two trainings with the IDs 65536 and 65537.
C31_Witness ==
    /\ custom_compression_dict_counter = FirstCustomId + 2
    /\ active_compressor.dictionary_id = FirstCustomId + 1
    /\ last_compressor.dictionary_id = FirstCustomId
    /\ training_data # None /\ training_data.type = "WAITING_TO_REFRESH"

\* The stage of training, or NONE without training_data.
TrainingStage(info) == IF info = None THEN "NONE" ELSE info.type

\* C32: training_data moves from BEFORE_LOW_WATERMARK to
\* BEFORE_HIGH_WATERMARK, from there to WAITING_TO_REFRESH and from there back
\* to BEFORE_HIGH_WATERMARK, and in no other way; the training of the low
\* watermark is the first training of the session; WAITING_TO_REFRESH is left
\* only when compression_retrain_interval_seconds have passed since
\* last_refreshed_at, with a collector started then that holds nothing but the
\* sample just stored.
C32_TrainingStages ==
    /\ [][\/ TrainingStage(training_data') = TrainingStage(training_data)
          \/ TrainingStage(training_data') = "NONE"
          \/ <<TrainingStage(training_data), TrainingStage(training_data')>> \in
                 {<<"BEFORE_LOW_WATERMARK", "BEFORE_HIGH_WATERMARK">>,
                  <<"BEFORE_HIGH_WATERMARK", "WAITING_TO_REFRESH">>,
                  <<"WAITING_TO_REFRESH", "BEFORE_HIGH_WATERMARK">>}]_vars
    /\ [][LowWatermarkFires =>
            custom_compression_dict_counter = FirstCustomId]_vars
    /\ [][(/\ TrainingStage(training_data) = "WAITING_TO_REFRESH"
           /\ TrainingStage(training_data') = "BEFORE_HIGH_WATERMARK") =>
            /\ env.now >= training_data.last_refreshed_at
                   + broadcaster_config.compression_retrain_interval_seconds
            /\ training_data'.started_at = env.now
            /\ training_data'.length \in RetrainLengths]_vars
    /\ [](TrainingStage(training_data) = "WAITING_TO_REFRESH" =>
             training_data.last_refreshed_at <= env.now)

\* A collector opened by a retraining has reached the high watermark again.
C32_Witness ==
    /\ TrainingStage(training_data) = "WAITING_TO_REFRESH"
    /\ training_data.last_refreshed_at
           >= broadcaster_config.compression_retrain_interval_seconds
    /\ custom_compression_dict_counter >= FirstCustomId + 2

\* The watermark _check_training_data compares the collector with in the
\* stage training_data is in.
Watermark ==
    IF training_data.type = "BEFORE_LOW_WATERMARK"
    THEN broadcaster_config.compression_training_low_watermark
    ELSE broadcaster_config.compression_training_high_watermark

\* C33: a step that adds a sample to the collector leaves dirty set, and
\* while dirty is not set the collector holds less than the watermark of the
\* stage of training.
C33_DirtyWhenFed ==
    /\ [][(/\ training_data # None /\ training_data' # None
           /\ training_data'.type # "WAITING_TO_REFRESH"
           /\ \/ training_data'.length > training_data.length
              \/ training_data'.started_at # training_data.started_at)
          => training_data'.dirty]_vars
    /\ []((/\ training_data # None
            /\ training_data.type # "WAITING_TO_REFRESH"
            /\ ~training_data.dirty)
           => training_data.length < Watermark)

\* The send task holds a capturer over a collector's tmpfile and has not
\* reached the finally that closes the capturer.
Capturing(t) ==
    /\ t # NoTask
    /\ t.capture_io.type = "GUARDED"
    /\ ~TaskDone(t)

\* The tmpfile of the collector started at the given time is open.
CollectorOpen(started_at) ==
    /\ training_data # None
    /\ training_data.type # "WAITING_TO_REFRESH"
    /\ training_data.started_at = started_at

C35_TrainingOnlyWhenEnabled ==
    socket_level_config # None /\ training_data # None =>
        /\ socket_level_config.enable_zstd
        /\ socket_level_config.enable_training
        /\ broadcaster_config.allow_training

CompressionForbidden ==
    \/ ~broadcaster_config.compression_allowed
    \/ ~socket_level_config.enable_zstd

\* C36: in a configured session whose broadcaster forbids compression, or
\* whose CONFIGURE did not enable zstd, no compressor slot is populated,
\* every RECEIVE_STREAM frame sent carries x-compressor 0, and no inbound
\* notification with another compressor id is accepted.
C36_NoCompressionWhenForbidden ==
    socket_level_config # None /\ CompressionForbidden =>
        /\ standard_compressor = NoCompressor
        /\ active_compressor = NoCompressor
        /\ last_compressor = NoCompressor
        /\ \A i \in 1..Len(sent) :
               sent[i].type = "RECEIVE_STREAM" => sent[i].compressor = 0
        /\ incoming_notification # NoNotification =>
               incoming_notification.compressor_id = 0

\* The step reads msg.stream of the _LargeMessage in the send slot: a chunk
\* of the direct path, the remainder when it respools, or the pass of the
\* compressed path.
ReadsHubStream ==
    /\ send_task.msg.type = "LARGE"
    /\ send_task'.msg = send_task.msg
    /\ \/ /\ send_task.path = "direct"
          /\ send_task'.path = "direct"
          /\ send_task'.pos # send_task.pos
       \/ /\ send_task.pc = "compressing"
          /\ send_task'.path = "compressed"

\* The step sets the finished signal of the item in the send slot.
Releases ==
    /\ send_task.msg.type = "LARGE"
    /\ send_task.msg.n \notin finished
    /\ send_task.msg.n \in finished'

\* C37: the session does not read the hub's stream of a Large item whose
\* finished signal it has set; the direct path sets the signal only once it
\* has read the whole stream, and the parts it sends after a timeout are read
\* from the local copy.
C37_NoReadAfterFinished ==
    [][/\ ReadsHubStream => send_task.msg.n \notin finished
       /\ Releases /\ send_task'.path = "direct" =>
              send_task'.pos = send_task.msg.length
       /\ /\ send_task.msg.type = "LARGE"
          /\ send_task.phase = "respooled"
          /\ send_task'.msg = send_task.msg
          => /\ send_task'.pos = send_task.pos
             /\ send_task'.target_pos >= send_task.target_pos]_vars

\* A part read from the local copy has been sent after the timeout released
\* the item.
C37_Witness ==
    /\ send_task.msg.type = "LARGE"
    /\ send_task.phase = "respooled"
    /\ send_task.target_pos > 0
    /\ send_task.pc = "done"
    /\ send_task.msg.n \in finished

\* The frame makes handle_waiting_configure return StateClosing.
ClosesOn(message) ==
    \/ message.type \in {"DISCONNECT", "TEXT"}
    \/ message.type \notin {"CONFIGURE", "MALFORMED"}

\* C38: handle_waiting_configure reads one frame; on a disconnect, a message
\* that is not binary or a frame that is not a CONFIGURE it moves to Closing
\* with no frame sent, no send started and no receiver registered; a handler
\* that raised, before or after register_receiver, leaves no receiver
\* registered.
C38_WaitingConfigure ==
    /\ [](handler.pc # "read" => env.frames = 1)
    /\ [](st = "CLOSING" =>
            /\ ClosesOn(read_task.message)
            /\ sent = <<>>
            /\ send_task = NoTask
            /\ handler.receiver_id = 0
            /\ internal_receiver = {})
    /\ [](handler.pc = "raised" => internal_receiver = {})
    /\ [][handler.pc = "read" /\ handler'.pc # "read"
            /\ ClosesOn(read_task.message) => st' = "CLOSING"]_vars

\* Building the Open state failed after register_receiver returned, and the
\* receiver has been unregistered.
C38_Witness ==
    /\ handler.pc = "raised"
    /\ handler.receiver_id = ReceiverId
    /\ internal_receiver = {}

\* The notifications the message branch has taken from the fanout queue.
FanoutAttempts == env.deliveries - Len(queue)

\* C39: while the session is Open a notification on the fanout queue is
\* taken by the loop, whatever the peer sends: the queue is not starved by
\* inbound frames.
C39_FanoutNotStarved ==
    \A k \in 0..MaxDeliveries :
        (st = "OPEN" /\ queue # <<>> /\ FanoutAttempts = k)
            ~> (st # "OPEN" \/ FanoutAttempts > k)

\* The names of a header list or of a parsed header dict, in order.
HeaderKeys(headers) == [i \in 1..Len(headers) |-> headers[i].name]

\* The frame in the codec is a NOTIFY_STREAM in the minimal form.
MinimalStreamFrame ==
    /\ wire.frame.flags % 2 = 1
    /\ wire.frame.type = TypeNumber(_ParsedWSMessageType, "NOTIFY_STREAM")
    /\ Len(wire.frame.headers) >= Len(StreamHead)
    /\ SubSeq(HeaderKeys(wire.frame.headers), 1, Len(StreamHead)) = StreamHead

\* C40: of a minimal NOTIFY_STREAM frame the parser reads authorization,
\* x-identifier and x-part-id, then the five headers of the first part when
\* the part id is 0 and no header when it is not; the bytes that follow are
\* the body.
C40_MinimalStreamHeaders ==
    wire.pc \in {"parsed", "raised"} /\ MinimalStreamFrame =>
        /\ wire.pc = "parsed"
        /\ HeaderKeys(wire.parsed.headers) =
               StreamHead \o (IF FromBytes(wire.frame.headers[3].value) = 0
                              THEN StreamFirst ELSE <<>>)
        /\ wire.parsed.headers[2].value = wire.frame.headers[2].value
        /\ wire.parsed.body = wire.frame.body

====
